---- MODULE Spec2Model ----
(***************************************************************************)
(* Model of leonardpahlke/ci-signal-report.                                *)
(*                                                                         *)
(* Strings are sequences of tokens (a token is an indivisible piece of     *)
(* text), so that strings.Contains is a real substring test: the label     *)
(* <<"x-", "lifecycle/stale">> contains <<"lifecycle/stale">> without      *)
(* being equal to it.  A Go map is a function over its key set.            *)
(***************************************************************************)
EXTENDS Integers, Sequences, FiniteSets, TLC

(* ------------------------------ bounds --------------------------------- *)
\* largest upstream result set of the issue listing
MaxItems == 3
\* largest per_page value tried (the program asks for 20)
MaxPerPage == 2

(* ------------------------- strings and maps ---------------------------- *)
\* strings.Contains(s, sub)
Contains(s, sub) ==
    \E i \in 0..(Len(s) - Len(sub)) : SubSeq(s, i + 1, i + Len(sub)) = sub

EmptyMap == [x \in {} |-> 0]

\* m[k] = v
MapPut(m, k, v) == [x \in (DOMAIN m) \cup {k} |-> IF x = k THEN v ELSE m[x]]

\* a variant that keeps the value a key already has
MapMergeKeepFirst(dst, src) ==
    [x \in (DOMAIN dst) \cup (DOMAIN src) |-> IF x \in DOMAIN dst THEN dst[x] ELSE src[x]]

\* for k, v := range src { dst[k] = v }
MapMerge(dst, src) ==
    [x \in (DOMAIN dst) \cup (DOMAIN src) |-> IF x \in DOMAIN src THEN src[x] ELSE dst[x]]

MapValues(m) == {m[k] : k \in DOMAIN m}

(* ---------------------- filterGithubIssues ----------------------------- *)
ExcludedLabels ==
    << <<"priority/backlog">>, <<"triage/accepted">>,
       <<"lifecycle/rotten">>, <<"lifecycle/stale">> >>

PullMarker == <<"pull">>

\* one pass of the body of the label loop: fine = fine && !Contains(...) x 4
LabelStep(fine, name) ==
    (((fine /\ ~Contains(name, ExcludedLabels[1]))
            /\ ~Contains(name, ExcludedLabels[2]))
            /\ ~Contains(name, ExcludedLabels[3]))
            /\ ~Contains(name, ExcludedLabels[4])

RECURSIVE LabelLoop(_, _, _)
LabelLoop(labels, idx, fine) ==
    IF idx > Len(labels) THEN fine
    ELSE LabelLoop(labels, idx + 1, LabelStep(fine, labels[idx]))

\* the value of `fine` for one issue when it reaches `if fine`
\* (a variant that forgets `fine &&` in the label loop: only the last label counts)
issueFineLastLabelOnly(i) ==
    (IF Len(i.Labels) = 0 THEN TRUE ELSE LabelStep(TRUE, i.Labels[Len(i.Labels)]))
        /\ ~Contains(i.HTMLURL, PullMarker)

issueFine(i) ==
    LabelLoop(i.Labels, 1, TRUE) /\ ~Contains(i.HTMLURL, PullMarker)

RECURSIVE FilterLoop(_, _, _)
FilterLoop(issues, idx, filteredIssues) ==
    IF idx > Len(issues) THEN filteredIssues
    ELSE FilterLoop(issues, idx + 1,
                    IF issueFine(issues[idx])
                    THEN MapPut(filteredIssues, issues[idx].Number, issues[idx])
                    ELSE filteredIssues)

\* a variant whose loop starts at the second element
filterGithubIssuesSkipFirst(issues) == FilterLoop(issues, 2, EmptyMap)

filterGithubIssues(issues) == FilterLoop(issues, 1, EmptyMap)

(* ------------------------------ state ---------------------------------- *)
VARIABLES
    \* issue listing (GetGithubIssues / assembleGithubIssues / requestGithubIssues)
    upstream,         \* the upstream result set, in listing order
    perPage,          \* cfg.Params[per_page]
    pc,               \* position of the page worker started with page = k
    url,              \* the page parameters already in worker k's url argument
    requestedIssues,  \* the raw page worker k decoded
    requests,         \* the page parameters of every request sent, in order
    wg,               \* counter of the WaitGroup of assembleGithubIssues
    coord,            \* position of the goroutine of assembleGithubIssues
    chClosed,         \* close(c) has run
    collectedIssues,  \* the map GetGithubIssues accumulates
    consumer,         \* position of GetGithubIssues
    aborted,          \* log.Fatalf has ended the process
    lastWriter,       \* for each key of collectedIssues, the page whose result wrote it last
    \* filterGithubIssues applied to one page, and to its own result
    givenIssues,      \* the argument of filterGithubIssues
    filteredIssues,   \* its result
    refiltered,       \* the result of filtering the issues of filteredIssues
    filterPc,         \* "start", then "filtered", then "refiltered"
    \* getDetails applied to one job
    jobData,          \* the TestgridValue of a job that is not passing
    details,          \* the ReportDataRecord getDetails returns
    detailPc,         \* "start", then "returned"
    \* flags
    shortOn,          \* meta.Flags.ShortOn
    \* dashboards (TestgridReport.RequestData / assembleTestgridRequests)
    tgPc,             \* position of the worker of each required job
    tgJobsData,       \* the summary document a worker decoded
    tgReportData,     \* the ReportDataField a worker built
    tgWg,             \* counter of the WaitGroup of assembleTestgridRequests
    tgCoord,          \* position of the goroutine of assembleTestgridRequests
    tgNext,           \* the required job its loop is at
    tgClosed,         \* close(c) has run
    tgReceived,       \* the fields the receiver of the channel holds, by emoji and title
    tgConsumer,       \* position of the receiver
    tgAborted,        \* log.Fatalf has ended the process
    \* board (GithubReport.RequestData / findCardsID / assembleGithubRequests)
    columns,          \* the answer to ListProjectColumns, while findCardsID holds it
    rdPc,             \* position of GithubReport.RequestData
    resolvedCardsID,  \* the identifier findCardsID returned
    callerWg,         \* counter of the WaitGroup the caller passed in
    bkPc,             \* position of the worker of each bucket
    bkReportData,     \* the ReportData a bucket's worker built
    cardRequests,     \* the card identifiers ListProjectCards was called with
    ghWg,             \* counter of the WaitGroup of assembleGithubRequests
    ghCoord,          \* position of the goroutine of assembleGithubRequests
    ghNext,           \* the bucket its loop is at
    ghClosed,         \* close(c) has run
    reportData,       \* the map RequestData accumulates
    \* SIG of a card's issue
    sigLabels,        \* issueDetail.Labels
    sigResult,        \* what the label loop leaves in overview.Sig, or that it panicked
    sigPc,            \* "start" before the loop, "done" after it
    \* the cards of one column (sortDataIntoDataRecord, assembleCardRequests)
    cdListing,        \* the answer of ListProjectCards
    cdCoord,          \* position of assembleCardRequests and of its goroutine
    cdNext,           \* the card its loop is at
    cdWg,             \* counter of the WaitGroup of assembleCardRequests
    cdClosed,         \* close(c) has run
    cdPc,             \* position of each card goroutine
    cdOverview,       \* the overview each card goroutine built
    cdRecords,        \* reportDataRecord of sortDataIntoDataRecord
    cdConsumer,       \* "range" while sortDataIntoDataRecord receives, "sent" after c <- reportData
    cdField,          \* the records sent under the bucket's field
    cdLogged,         \* the errors written to the log
    cdCrashed,        \* a goroutine has panicked
    \* the records of the issues (transformIntoReportData)
    trIssues,         \* the map given to transformIntoReportData
    trPc,             \* position of the goroutine of each issue
    trWg,             \* counter of the WaitGroup of transformIntoReportData
    trCoord,          \* position of the goroutine that starts them
    trClosed,         \* close(c) has run
    trSent,           \* the fields sent through the channel, in the order received
    trConsumer,       \* "range" while the channel is read, "returned" after it
    \* the request configurations (GithubReport.RequestData, issue path)
    rqConfigs,        \* len(requestCfg)
    rqPc,             \* position of the goroutine of each configuration
    rqIssues,         \* githubIssues of each goroutine
    rqLeft,           \* the keys its range loop has still to copy
    rqKey,            \* the key it is writing, 0 when it is not writing
    rqOverlap,        \* another goroutine was writing during its write
    allReqGithubIssues, \* the map the goroutines copy into
    internalWg,       \* counter of internalWg
    rqCoord,          \* position of RequestData
    rqNext,           \* the configuration its loop is at
    rqCrashed         \* the runtime has ended the process

issueVars == <<upstream, perPage, pc, url, requestedIssues, requests, wg, coord,
               chClosed, collectedIssues, consumer, aborted, lastWriter>>

filterVars == <<givenIssues, filteredIssues, refiltered, filterPc>>

detailVars == <<jobData, details, detailPc>>

testgridVars == <<tgPc, tgJobsData, tgReportData, tgWg, tgCoord, tgNext, tgClosed,
                  tgReceived, tgConsumer, tgAborted>>

boardVars == <<columns, rdPc, resolvedCardsID, callerWg, bkPc, bkReportData, cardRequests,
               ghWg, ghCoord, ghNext, ghClosed, reportData>>

metaVars == <<shortOn>>

sigVars == <<sigLabels, sigResult, sigPc>>

cardVars == <<cdListing, cdCoord, cdNext, cdWg, cdClosed, cdPc, cdOverview, cdRecords,
              cdConsumer, cdField, cdLogged, cdCrashed>>

transformVars == <<trIssues, trPc, trWg, trCoord, trClosed, trSent, trConsumer>>

requestVars == <<rqConfigs, rqPc, rqIssues, rqLeft, rqKey, rqOverlap, allReqGithubIssues,
                 internalWg, rqCoord, rqNext, rqCrashed>>

\* the groups added after the first five pipelines
extraVars == <<sigVars, cardVars, transformVars, requestVars>>

vars == <<issueVars, filterVars, detailVars, metaVars, testgridVars, boardVars, extraVars>>

notIssueVars == <<filterVars, detailVars, metaVars, testgridVars, boardVars, extraVars>>
notFilterVars == <<issueVars, detailVars, metaVars, testgridVars, boardVars, extraVars>>
notDetailVars == <<issueVars, filterVars, metaVars, testgridVars, boardVars, extraVars>>
notTestgridVars == <<issueVars, filterVars, detailVars, boardVars, extraVars>>
notBoardVars == <<issueVars, filterVars, detailVars, testgridVars, extraVars>>
\* everything but the group named and shortOn
firstVars == <<issueVars, filterVars, detailVars, testgridVars, boardVars>>
notSigVars == <<firstVars, metaVars, cardVars, transformVars, requestVars>>
notCardVars == <<firstVars, metaVars, sigVars, transformVars, requestVars>>
notTransformVars == <<firstVars, metaVars, sigVars, cardVars, requestVars>>
notRequestVars == <<firstVars, metaVars, sigVars, cardVars, transformVars>>

\* the pipelines and functions a specification does not exercise stay as they are here
IdleIssues ==
    /\ upstream = <<>> /\ perPage = 1
    /\ pc = <<>> /\ url = <<>> /\ requestedIssues = <<>> /\ requests = <<>>
    /\ wg = 0 /\ coord = "idle" /\ chClosed = FALSE
    /\ collectedIssues = EmptyMap /\ consumer = "idle" /\ aborted = FALSE
    /\ lastWriter = EmptyMap

IdleFilter ==
    givenIssues = <<>> /\ filteredIssues = EmptyMap /\ refiltered = EmptyMap /\ filterPc = "idle"

IdleDetails == jobData = <<>> /\ details = <<>> /\ detailPc = "idle"

IdleMeta == shortOn = FALSE

\* no answer held: the value of a nil column list
NoColumns == [ok |-> FALSE, cols |-> <<>>]

IdleBoard ==
    /\ columns = NoColumns /\ rdPc = "idle" /\ resolvedCardsID = 0 /\ callerWg = 0
    /\ bkPc = <<>> /\ bkReportData = <<>> /\ cardRequests = {}
    /\ ghWg = 0 /\ ghCoord = "idle" /\ ghNext = 0 /\ ghClosed = FALSE
    /\ reportData = EmptyMap

IdleTestgrid ==
    /\ tgPc = <<>> /\ tgJobsData = <<>> /\ tgReportData = <<>>
    /\ tgWg = 0 /\ tgCoord = "idle" /\ tgNext = 0 /\ tgClosed = FALSE
    /\ tgReceived = EmptyMap /\ tgConsumer = "idle" /\ tgAborted = FALSE

IdleSig == sigLabels = <<>> /\ sigResult = <<>> /\ sigPc = "idle"

IdleFirst == IdleIssues /\ IdleFilter /\ IdleDetails /\ IdleTestgrid /\ IdleBoard

\* no answer held: the value of a nil card list
NoCards == [ok |-> FALSE, cards |-> <<>>]

IdleCards ==
    /\ cdListing = NoCards /\ cdCoord = "idle" /\ cdNext = 0 /\ cdWg = 0
    /\ cdClosed = FALSE /\ cdPc = <<>> /\ cdOverview = <<>> /\ cdRecords = <<>>
    /\ cdConsumer = "idle" /\ cdField = <<>> /\ cdLogged = {} /\ cdCrashed = FALSE

IdleTransform ==
    /\ trIssues = EmptyMap /\ trPc = <<>> /\ trWg = 0 /\ trCoord = "idle"
    /\ trClosed = FALSE /\ trSent = <<>> /\ trConsumer = "idle"

IdleRequests ==
    /\ rqConfigs = 0 /\ rqPc = <<>> /\ rqIssues = <<>> /\ rqLeft = <<>> /\ rqKey = <<>>
    /\ rqOverlap = <<>> /\ allReqGithubIssues = EmptyMap /\ internalWg = 0
    /\ rqCoord = "idle" /\ rqNext = 0 /\ rqCrashed = FALSE

IdleExtra == IdleSig /\ IdleCards /\ IdleTransform /\ IdleRequests

(* ------------------------- issue listing ------------------------------- *)
NumStr == <<"1", "2", "3", "4">>

IssueURL(n) == <<"https://github.com/kubernetes/kubernetes/", "issues", "/", NumStr[n]>>
PullURL(n)  == <<"https://github.com/kubernetes/kubernetes/", "pull", "/", NumStr[n]>>

\* what the listing endpoint can hold: issues and pull requests of one repository
IssuePool ==
    { [Number |-> n, Title |-> "flaky e2e", Labels |-> l, HTMLURL |-> IssueURL(n)] :
        n \in 1..2, l \in { << <<"kind/failing-test">> >>,
                            << <<"kind/failing-test">>, <<"lifecycle/stale">> >> } }
    \cup
    { [Number |-> 1, Title |-> "flaky e2e", Labels |-> << <<"kind/failing-test">> >>,
       HTMLURL |-> PullURL(1)] }
    \cup
    \* issue 1 as it is listed after its title has been edited
    { [Number |-> 1, Title |-> "flaky e2e (edited)", Labels |-> << <<"kind/failing-test">> >>,
       HTMLURL |-> IssueURL(1)] }

RECURSIVE SeqsUpTo(_, _)
SeqsUpTo(S, n) ==
    IF n = 0 THEN {<<>>}
    ELSE LET shorter == SeqsUpTo(S, n - 1)
         IN  shorter \cup {Append(s, x) : s \in {t \in shorter : Len(t) = n - 1}, x \in S}

\* one more worker than the longest listing needs, so that a spawn is never cut off
MaxPages == MaxItems + 2
Pages == 1..MaxPages

Min(a, b) == IF a < b THEN a ELSE b

\* the listing endpoint: the last page parameter of the query string selects the page
ServerPage(pageParams) ==
    LET p == pageParams[Len(pageParams)]
    IN  SubSeq(upstream, (p - 1) * perPage + 1, Min(p * perPage, Len(upstream)))

InitIssues ==
    /\ upstream \in SeqsUpTo(IssuePool, MaxItems)
    /\ perPage \in 1..MaxPerPage
    /\ pc = [k \in Pages |-> "idle"]
    /\ url = [k \in Pages |-> <<>>]
    /\ requestedIssues = [k \in Pages |-> <<>>]
    /\ requests = <<>>
    /\ wg = 0
    /\ coord = "start"
    /\ chClosed = FALSE
    /\ collectedIssues = EmptyMap
    /\ consumer = "range"
    /\ aborted = FALSE
    /\ lastWriter = EmptyMap
    /\ IdleFilter /\ IdleDetails /\ IdleMeta /\ IdleTestgrid /\ IdleBoard /\ IdleExtra

\* assembleGithubIssues: wg.Add(1); go requestGithubIssues(c, &wg, url, 1, authToken)
CoordStart ==
    /\ ~aborted /\ coord = "start"
    /\ wg' = wg + 1
    /\ pc' = [pc EXCEPT ![1] = "request"]
    /\ coord' = "wait"
    /\ UNCHANGED <<lastWriter, upstream, perPage, url, requestedIssues, requests, chClosed,
                   collectedIssues, consumer, aborted>>
    /\ UNCHANGED notIssueVars

\* assembleGithubIssues: wg.Wait() returns
CoordWait ==
    /\ ~aborted /\ coord = "wait" /\ wg = 0
    /\ coord' = "close"
    /\ UNCHANGED <<lastWriter, upstream, perPage, pc, url, requestedIssues, requests, wg, chClosed,
                   collectedIssues, consumer, aborted>>
    /\ UNCHANGED notIssueVars

\* assembleGithubIssues: defer close(c)
CoordClose ==
    /\ ~aborted /\ coord = "close"
    /\ chClosed' = TRUE
    /\ coord' = "done"
    /\ UNCHANGED <<lastWriter, upstream, perPage, pc, url, requestedIssues, requests, wg,
                   collectedIssues, consumer, aborted>>
    /\ UNCHANGED notIssueVars

\* requestGithubIssues: url = url + "&page=<page>"; the request is answered and decoded
DoRequest(k) ==
    /\ ~aborted /\ pc[k] = "request"
    /\ requests' = Append(requests, Append(url[k], k))
    /\ url' = [url EXCEPT ![k] = Append(url[k], k)]
    /\ requestedIssues' = [requestedIssues EXCEPT ![k] = ServerPage(Append(url[k], k))]
    /\ pc' = [pc EXCEPT ![k] = "decide"]
    /\ UNCHANGED <<lastWriter, upstream, perPage, wg, coord, chClosed, collectedIssues, consumer, aborted>>
    /\ UNCHANGED notIssueVars

\* requestGithubIssues: sending, reading or decoding fails: log.Fatalf
RequestFails(k) ==
    /\ ~aborted /\ pc[k] = "request"
    /\ requests' = Append(requests, Append(url[k], k))
    /\ url' = [url EXCEPT ![k] = Append(url[k], k)]
    /\ aborted' = TRUE
    /\ UNCHANGED <<lastWriter, upstream, perPage, pc, requestedIssues, wg, coord, chClosed,
                   collectedIssues, consumer>>
    /\ UNCHANGED notIssueVars

\* a variant that stops at the first page shorter than per_page
ShouldRequestNextShortPage(issues) == Len(issues) = perPage

\* a variant that looks at the filtered page
ShouldRequestNextFiltered(issues) == DOMAIN filterGithubIssues(issues) # {}

\* requestGithubIssues: if len(requestedIssues) != 0
ShouldRequestNext(issues) == Len(issues) # 0

\* a variant that goes on to the send without starting the next worker
SpawnNextSkipped(k) ==
    /\ ~aborted /\ pc[k] = "decide"
    /\ pc' = [pc EXCEPT ![k] = "send"]
    /\ UNCHANGED <<lastWriter, wg, url, upstream, perPage, requestedIssues, requests, coord,
                   chClosed, collectedIssues, consumer, aborted>>
    /\ UNCHANGED notIssueVars

\* a variant that starts the next worker without wg.Add(1)
SpawnNextNoAdd(k) ==
    /\ ~aborted /\ pc[k] = "decide"
    /\ IF ShouldRequestNext(requestedIssues[k]) /\ k < MaxPages
       THEN /\ pc' = [pc EXCEPT ![k] = "send", ![k + 1] = "request"]
            /\ url' = [url EXCEPT ![k + 1] = url[k]]
       ELSE /\ pc' = [pc EXCEPT ![k] = "send"]
            /\ url' = url
    /\ UNCHANGED <<lastWriter, wg, upstream, perPage, requestedIssues, requests, coord, chClosed,
                   collectedIssues, consumer, aborted>>
    /\ UNCHANGED notIssueVars

\* requestGithubIssues: page++; wg.Add(1); go requestGithubIssues(c, wg, url, page, authToken)
SpawnNext(k) ==
    /\ ~aborted /\ pc[k] = "decide"
    /\ IF ShouldRequestNext(requestedIssues[k]) /\ k < MaxPages
       THEN /\ wg' = wg + 1
            /\ pc' = [pc EXCEPT ![k] = "send", ![k + 1] = "request"]
            /\ url' = [url EXCEPT ![k + 1] = url[k]]
       ELSE /\ pc' = [pc EXCEPT ![k] = "send"]
            /\ UNCHANGED <<wg, url>>
    /\ UNCHANGED <<lastWriter, upstream, perPage, requestedIssues, requests, coord, chClosed,
                   collectedIssues, consumer, aborted>>
    /\ UNCHANGED notIssueVars

\* requestGithubIssues: c <- filterGithubIssues(requestedIssues), received by the
\* range loop of GetGithubIssues, which copies the page into collectedIssues
SendPage(k) ==
    /\ ~aborted /\ pc[k] = "send" /\ consumer = "range" /\ ~chClosed
    /\ collectedIssues' = MapMerge(collectedIssues, filterGithubIssues(requestedIssues[k]))
    /\ lastWriter' = [n \in (DOMAIN lastWriter) \cup (DOMAIN filterGithubIssues(requestedIssues[k])) |->
                         IF n \in DOMAIN filterGithubIssues(requestedIssues[k]) THEN k
                         ELSE lastWriter[n]]
    /\ pc' = [pc EXCEPT ![k] = "done"]
    /\ UNCHANGED <<upstream, perPage, url, requestedIssues, requests, wg, coord, chClosed,
                   consumer, aborted>>
    /\ UNCHANGED notIssueVars

\* a variant in which the worker returns without wg.Done()
WgDoneSkipped(k) ==
    /\ ~aborted /\ pc[k] = "done"
    /\ pc' = [pc EXCEPT ![k] = "finished"]
    /\ UNCHANGED <<lastWriter, upstream, perPage, url, requestedIssues, requests, wg, coord, chClosed,
                   collectedIssues, consumer, aborted>>
    /\ UNCHANGED notIssueVars

\* requestGithubIssues: wg.Done()
WgDone(k) ==
    /\ ~aborted /\ pc[k] = "done"
    /\ wg' = wg - 1
    /\ pc' = [pc EXCEPT ![k] = "finished"]
    /\ UNCHANGED <<lastWriter, upstream, perPage, url, requestedIssues, requests, coord, chClosed,
                   collectedIssues, consumer, aborted>>
    /\ UNCHANGED notIssueVars

\* GetGithubIssues: the range loop ends on the closed channel; return collectedIssues
ConsumerReturn ==
    /\ ~aborted /\ consumer = "range" /\ chClosed
    /\ consumer' = "returned"
    /\ UNCHANGED <<lastWriter, upstream, perPage, pc, url, requestedIssues, requests, wg, coord, chClosed,
                   collectedIssues, aborted>>
    /\ UNCHANGED notIssueVars

NextIssues ==
    \/ CoordStart
    \/ CoordWait
    \/ CoordClose
    \/ \E k \in Pages : DoRequest(k)
    \/ \E k \in Pages : RequestFails(k)
    \/ \E k \in Pages : SpawnNext(k)
    \/ \E k \in Pages : SendPage(k)
    \/ \E k \in Pages : WgDone(k)
    \/ ConsumerReturn

SpecIssues == InitIssues /\ [][NextIssues]_vars

(* ---------------------- claims on the issue listing -------------------- *)
CeilPages == (Len(upstream) + perPage - 1) \div perPage

Decided(k) == pc[k] \in {"send", "done", "finished"}

\* C1: for N items in pages of size P and no failed request, the requests sent are
\* those of pages 1, 2, ... in order, never more than ceil(N/P) + 1 of them; the
\* first ceil(N/P) return a non-empty page and the last one the empty page; when
\* GetGithubIssues returns, exactly ceil(N/P) + 1 requests have been sent.
C1_PageRequestCount ==
    /\ Len(requests) <= CeilPages + 1
    /\ \A i \in 1..Len(requests) :
          /\ requests[i][Len(requests[i])] = i
          /\ (ServerPage(requests[i]) # <<>>) <=> (i <= CeilPages)
    /\ consumer = "returned" => Len(requests) = CeilPages + 1

\* a listing whose last page is a remainder has been fetched to the end
C1_Witness ==
    /\ consumer = "returned" /\ ~aborted
    /\ Len(upstream) = 3 /\ perPage = 2 /\ Len(requests) = 3

\* C2: once the worker of page k has taken its decision, the worker of page k + 1
\* has been started if and only if the raw page k holds at least one item, whatever
\* filterGithubIssues leaves of it; a request is sent for page k + 1 only then.
C2_NextPageOnRawPage ==
    /\ \A k \in 1..(MaxPages - 1) :
          Decided(k) => ((pc[k + 1] # "idle") <=> (Len(requestedIssues[k]) # 0))
    /\ \A i \in 2..Len(requests) : Decided(i - 1) /\ Len(requestedIssues[i - 1]) # 0

\* a page whose items are all filtered out, and the request for the page after it
C2_Witness ==
    \E k \in 1..(MaxPages - 1) :
        /\ Decided(k)
        /\ Len(requestedIssues[k]) # 0
        /\ filterGithubIssues(requestedIssues[k]) = EmptyMap
        /\ Len(requests) >= k + 1

Running == {k \in Pages : pc[k] \notin {"idle", "finished"}}

\* C3: the channel is closed only when the WaitGroup counter is zero; after the first
\* Add the counter equals the number of started page workers that have not called
\* Done, so it is zero only when every started worker has delivered its page and
\* called Done; no worker is still to send when the channel is closed.
C3_CloseAfterAllWorkers ==
    /\ chClosed => wg = 0
    /\ coord \in {"close", "done"} => wg = 0
    /\ coord # "start" => wg = Cardinality(Running)
    /\ chClosed => Running = {}

\* the channel is closed after a chain of at least three workers
C3_Witness == chClosed /\ pc[3] = "finished" /\ wg = 0

(* --------------------- filterGithubIssues on its own ------------------- *)
\* most labels on one issue
MaxLabels == 2
\* most issues in one page
MaxFilterIssues == 2

\* label names: the four excluded ones, one that only contains an excluded one, others
LabelPool ==
    { <<"priority/backlog">>, <<"triage/accepted">>, <<"lifecycle/rotten">>,
      <<"lifecycle/stale">>, <<"needs-", "lifecycle/stale", "-review">>,
      <<"kind/failing-test">> }

\* label lists of an issue: any labels, at most one of them other than kind/failing-test
LabelLists ==
    { l \in SeqsUpTo(LabelPool, MaxLabels) :
        Cardinality({j \in 1..Len(l) : l[j] # <<"kind/failing-test">>}) <= 1 }

FilterPool ==
    { [Number |-> n, Labels |-> l, HTMLURL |-> u] :
        n \in 1..MaxFilterIssues, l \in LabelLists, u \in {IssueURL(1), PullURL(1)} }

Range(s) == {s[i] : i \in 1..Len(s)}

\* the issues of one repository in one page have distinct numbers
DistinctNumbers(s) == \A i, j \in 1..Len(s) : s[i].Number = s[j].Number => i = j

\* every order in which a range loop can visit the values of a map
Orders(S) ==
    {s \in SeqsUpTo(S, Cardinality(S)) : Len(s) = Cardinality(S) /\ Range(s) = S}

InitFilter ==
    /\ \E n \in 0..MaxFilterIssues : givenIssues \in [1..n -> FilterPool]
    /\ DistinctNumbers(givenIssues)
    /\ filteredIssues = EmptyMap
    /\ refiltered = EmptyMap
    /\ filterPc = "start"
    /\ IdleIssues /\ IdleDetails /\ IdleMeta /\ IdleTestgrid /\ IdleBoard /\ IdleExtra

\* filterGithubIssues(issues)
ApplyFilter ==
    /\ filterPc = "start"
    /\ filteredIssues' = filterGithubIssues(givenIssues)
    /\ filterPc' = "filtered"
    /\ UNCHANGED <<givenIssues, refiltered>>
    /\ UNCHANGED notFilterVars

\* filterGithubIssues applied to the issues of its own result, in any order
ReapplyFilter ==
    /\ filterPc = "filtered"
    /\ filterPc' = "refiltered"
    /\ \E s \in Orders(MapValues(filteredIssues)) : refiltered' = filterGithubIssues(s)
    /\ UNCHANGED <<givenIssues, filteredIssues>>
    /\ UNCHANGED notFilterVars

NextFilter == ApplyFilter \/ ReapplyFilter

SpecFilter == InitFilter /\ [][NextFilter]_vars

\* the exclusion policy as stated: a label matches when it contains the pattern
MatchesExcluded(name) ==
    \E p \in 1..Len(ExcludedLabels) : Contains(name, ExcludedLabels[p])

IsPullRequestURL(u) == Contains(u, PullMarker)

Excluded(i) ==
    \/ \E j \in 1..Len(i.Labels) : MatchesExcluded(i.Labels[j])
    \/ IsPullRequestURL(i.HTMLURL)

\* C4: an issue of the page is left out of the result if and only if one of its labels
\* matches priority/backlog, triage/accepted, lifecycle/rotten or lifecycle/stale, or
\* its URL is that of a pull request; every other issue is in the result under its
\* number, and the result holds nothing else.
C4_ExclusionPolicy ==
    filterPc # "start" =>
        /\ \A idx \in 1..Len(givenIssues) :
              LET i == givenIssues[idx]
                  included == i.Number \in DOMAIN filteredIssues
                                 /\ filteredIssues[i.Number] = i
              IN  Excluded(i) <=> ~included
        /\ \A n \in DOMAIN filteredIssues :
              filteredIssues[n].Number = n /\ filteredIssues[n] \in Range(givenIssues)

\* a page with an issue kept and an issue dropped for its second label
C4_Witness ==
    /\ filterPc = "filtered"
    /\ Len(givenIssues) = 2
    /\ \E idx \in 1..2 :
          /\ Len(givenIssues[idx].Labels) = 2
          /\ MatchesExcluded(givenIssues[idx].Labels[1])
          /\ ~MatchesExcluded(givenIssues[idx].Labels[2])
          /\ ~IsPullRequestURL(givenIssues[idx].HTMLURL)
          /\ givenIssues[idx].Number \notin DOMAIN filteredIssues
    /\ Cardinality(DOMAIN filteredIssues) = 1

\* C5: filtering the issues of an already filtered set gives the same set.
C5_FilterIdempotent ==
    filterPc = "refiltered" =>
        /\ refiltered = filteredIssues
        /\ MapValues(refiltered) = MapValues(filteredIssues)

\* a filtered set of two issues, out of a page, filtered again
C5_Witness ==
    /\ filterPc = "refiltered"
    /\ Cardinality(DOMAIN filteredIssues) = 2
    /\ Cardinality(DOMAIN refiltered) = 2

(* ------------------------------ getDetails ----------------------------- *)
\* OverallStatus values; "ACCEPTABLE" stands for any value the program has no name for
Passing == "PASSING"
Failing == "FAILING"
Flaky   == "FLAKY"
Stale   == "STALE"
Total   == "TOTAL"
StatusValues == {Passing, Failing, Flaky, Stale, "ACCEPTABLE"}

testgridReportSummary == 0
testgridReportDetails == 1

\* Severity and the highlight markers are declared outside the files at hand
LightSeverity  == 1
MediumSeverity == 2
HighSeverity   == 3
statusFailingEmoji == "statusFailingEmoji"
statusFlakyEmoji   == "statusFlakyEmoji"
statusNewTestEmoji == "statusNewTestEmoji"

\* \d{1,2} captures at most two digits
MaxTwoDigits == 99

\* what the expression (\d{1,2})\sof\s(\d{1,2}) finds in a status text: nothing, or
\* the two numbers of its leftmost match
StatusTexts ==
    { [matched |-> TRUE, passes |-> p, runs |-> r] : p, r \in 0..MaxTwoDigits }
    \cup { [matched |-> FALSE, passes |-> 0, runs |-> 0] }

\* getRegexParams: the named groups of the match; no entry at all without a match
getRegexParams(status) ==
    IF status.matched
    THEN [name \in {"passes", "runs"} |->
             IF name = "passes" THEN status.passes ELSE status.runs]
    ELSE EmptyMap

\* strconv.ParseFloat(latestExec[name], 64): the missing entry reads as "", which
\* does not parse: the value is 0 and the error is only printed
ParseFloat(latestExec, name) ==
    IF name \in DOMAIN latestExec THEN latestExec[name] ELSE 0

\* float64 values are kept as exact fractions.  For whole numbers up to 99 the float64
\* quotient compares with the float64 constants 0.5 and 0.8 as the exact fraction
\* does with 1/2 and 4/5: rounding is monotone, 4/5 rounds to the constant 0.8, and
\* any other fraction is further from the threshold than the rounding error.
thresholdWarning  == [num |-> 1, den |-> 2]
thresholdInfo     == [num |-> 4, den |-> 5]
newTestThreshhold == 5

\* a / b; with b = 0 the float64 result is an infinity or NaN
Quotient(a, b) == [num |-> a, den |-> b]

\* a variant that compares with <
RateLeqStrict(rate, threshold) == rate.num * threshold.den < threshold.num * rate.den

\* rate <= threshold, for a quotient with a positive denominator
RateLeq(rate, threshold) == rate.num * threshold.den <= threshold.num * rate.den

\* strings.Repeat(s, n)
Repeat(s, n) == [i \in 1..n |-> s]

\* sigRegex.FindAllString(test.TestName, -1): the tokens sig-<letters> of the name
SigTokens == {"sig-node", "sig-api"}
FindAllSigs(testName) == {testName[i] : i \in {j \in 1..Len(testName) : testName[j] \in SigTokens}}

TestPool ==
    { <<"[", "sig-node", "] Pods should start">>,
      <<"[", "sig-api", "-machinery] [", "sig-node", "] Watchers">> }

\* the notes getDetails puts before the recent-runs note
FailingNotes(jd) ==
    IF jd.OverallStatus = Failing
    THEN << [text |-> "Sig's involved",
             sigs |-> UNION {FindAllSigs(jd.Tests[t]) : t \in 1..Len(jd.Tests)}],
            [text |-> "Currently test are failing", count |-> Len(jd.Tests)] >>
    ELSE <<>>

\* the if/else chain that sets severity
SeverityOf(passes, runs) ==
    LET recentSuccessRate == Quotient(passes, runs)
    IN  IF runs <= newTestThreshhold THEN LightSeverity
        ELSE IF RateLeq(recentSuccessRate, thresholdWarning) THEN HighSeverity
        ELSE IF RateLeq(recentSuccessRate, thresholdInfo) THEN MediumSeverity
        ELSE LightSeverity

\* a variant in which the job status decides the marker before the number of runs
HighlightEmojiOfStatusFirst(overallStatus, runs) ==
    IF overallStatus = Failing THEN statusFailingEmoji
    ELSE IF runs <= newTestThreshhold THEN statusNewTestEmoji
    ELSE statusFlakyEmoji

\* the marker highlightEmoji ends up with
HighlightEmojiOf(overallStatus, runs) ==
    IF runs <= newTestThreshhold THEN statusNewTestEmoji
    ELSE IF overallStatus = Failing THEN statusFailingEmoji
    ELSE statusFlakyEmoji

getDetails(jobName, jd, jobBaseUrl) ==
    LET latestExec == getRegexParams(jd.Status)
        testgridRegexRecentPassesFloat == ParseFloat(latestExec, "passes")
        testgridRegexRecentRunsFloat == ParseFloat(latestExec, "runs")
        severity == SeverityOf(testgridRegexRecentPassesFloat, testgridRegexRecentRunsFloat)
        highlightEmoji ==
            HighlightEmojiOf(jd.OverallStatus, testgridRegexRecentRunsFloat)
    IN  [ ID        |-> testgridReportDetails,
          Status    |-> jd.OverallStatus,
          Title     |-> jobName,
          URL       |-> jobBaseUrl \o <<"#", jobName>>,
          Severity  |-> severity,
          Highlight |-> Repeat(highlightEmoji, severity),
          Notes     |-> FailingNotes(jd)
                          \o << [text |-> "passed recently", latestExec |-> latestExec] >> ]

\* getDetails is called for the jobs that are not passing
InitDetails ==
    /\ jobData \in [ OverallStatus : StatusValues \ {Passing},
                     Status : StatusTexts,
                     Tests : {<<>>} \cup {<<t>> : t \in TestPool} ]
    /\ details = <<>>
    /\ detailPc = "start"
    /\ IdleIssues /\ IdleFilter /\ IdleMeta /\ IdleTestgrid /\ IdleBoard /\ IdleExtra

CallGetDetails ==
    /\ detailPc = "start"
    /\ details' = getDetails("job1", jobData,
                           <<"https://testgrid.k8s.io/", "sig-release-master-blocking">>)
    /\ detailPc' = "returned"
    /\ UNCHANGED jobData
    /\ UNCHANGED notDetailVars

NextDetails == CallGetDetails

SpecDetails == InitDetails /\ [][NextDetails]_vars

\* C6: with the parsed passes and runs, runs <= 5 gives Light and the new-test marker
\* whatever passes is; otherwise passes/runs <= 0.5 gives High, passes/runs <= 0.8
\* gives Medium and a higher rate gives Light, both thresholds included.
C6_SeverityByRate ==
    (detailPc = "returned" /\ jobData.Status.matched) =>
        LET p == jobData.Status.passes
            r == jobData.Status.runs
        IN  /\ r <= 5 => /\ details.Severity = LightSeverity
                         /\ details.Highlight = <<statusNewTestEmoji>>
            /\ (r > 5 /\ 10 * p <= 5 * r) => details.Severity = HighSeverity
            /\ (r > 5 /\ 10 * p > 5 * r /\ 10 * p <= 8 * r) =>
                   details.Severity = MediumSeverity
            /\ (r > 5 /\ 10 * p > 8 * r) => details.Severity = LightSeverity
            /\ r > 5 => statusNewTestEmoji \notin Range(details.Highlight)

\* a job at exactly 0.8 is scored Medium
C6_Witness ==
    /\ detailPc = "returned" /\ jobData.Status.matched
    /\ jobData.Status.passes = 8 /\ jobData.Status.runs = 10
    /\ details.Severity = MediumSeverity

(* ------------------------------ dashboards ----------------------------- *)
\* most jobs in one summary document
MaxJobs == 2

masterBlockingEmoji  == "U+26D4"
masterInformingEmoji == "U+1F4A1"

RECURSIVE VersionJobs(_, _)
VersionJobs(releaseVersion, idx) ==
    IF idx > Len(releaseVersion) THEN <<>>
    ELSE << [OutputName |-> <<releaseVersion[idx], "-blocking">>,
             URLName    |-> <<"sig-release-", releaseVersion[idx], "-blocking">>,
             Emoji      |-> masterBlockingEmoji],
            [OutputName |-> <<releaseVersion[idx], "-informing">>,
             URLName    |-> <<"sig-release-", releaseVersion[idx], "-informing">>,
             Emoji      |-> masterInformingEmoji] >>
         \o VersionJobs(releaseVersion, idx + 1)

\* TestgridReport.RequestData: the dashboards to report on
requiredJobs(releaseVersion) ==
    << [OutputName |-> <<"Master-Blocking">>,
        URLName    |-> <<"sig-release-master-blocking">>,
        Emoji      |-> masterBlockingEmoji],
       [OutputName |-> <<"Master-Informing">>,
        URLName    |-> <<"sig-release-master-informing">>,
        Emoji      |-> masterInformingEmoji] >>
    \o VersionJobs(releaseVersion, 1)

\* the run modelled here has no release version configured
RequiredJobs == requiredJobs(<<>>)
Dashboards == 1..Len(RequiredJobs)

JobNames == <<"job1", "job2", "job3", "job4">>

\* the status texts of the dashboards' jobs: 3 of 10 recent columns passed
JobValues ==
    [ OverallStatus : StatusValues,
      Status : {[matched |-> TRUE, passes |-> 3, runs |-> 10]},
      Tests : {<<>>} ]

\* strings.ToLower(string(status))
ToLower(status) ==
    CASE status = Total   -> "total"
      [] status = Passing -> "passing"
      [] status = Flaky   -> "flaky"
      [] status = Failing -> "failing"
      [] status = Stale   -> "stale"

StatusRank(status) ==
    CASE status = Passing -> 1
      [] status = Failing -> 2
      [] status = Flaky   -> 3
      [] status = Stale   -> 4
      [] OTHER            -> 5

\* the summary documents of up to n jobs.  Job names are interchangeable, so the
\* documents are listed up to renaming: statuses do not descend along the names
SummaryDocuments(n) ==
    UNION { { doc \in [{JobNames[i] : i \in 1..m} -> JobValues] :
                \A i \in 1..(m - 1) :
                    StatusRank(doc[JobNames[i]].OverallStatus)
                        <= StatusRank(doc[JobNames[i + 1]].OverallStatus) }
            : m \in 0..n }

CountOf(jobs, S) == Cardinality({n \in DOMAIN jobs : jobs[n].OverallStatus \in S})

SummaryNote(count, status) == [count |-> count, text |-> ToLower(status)]

\* a variant that counts as stale only the jobs whose status is STALE
getSummaryNamedStale(jobs) ==
    LET stale == CountOf(jobs, {Stale})
    IN  [ ID |-> testgridReportSummary, Status |-> "", Title |-> "", URL |-> <<>>,
          Severity |-> 0, Highlight |-> <<>>,
          Notes |-> << SummaryNote(Cardinality(DOMAIN jobs), Total),
                       SummaryNote(CountOf(jobs, {Passing}), Passing),
                       SummaryNote(CountOf(jobs, {Flaky}), Flaky),
                       SummaryNote(CountOf(jobs, {Failing}), Failing) >>
                    \o (IF stale # 0 THEN <<SummaryNote(stale, Stale)>> ELSE <<>>) ]

\* getSummary: every job is counted once; the stale note is written only when the
\* count is not zero
getSummary(jobs) ==
    LET stale == CountOf(jobs, StatusValues \ {Passing, Failing, Flaky})
    IN  [ ID |-> testgridReportSummary, Status |-> "", Title |-> "", URL |-> <<>>,
          Severity |-> 0, Highlight |-> <<>>,
          Notes |-> << SummaryNote(Cardinality(DOMAIN jobs), Total),
                       SummaryNote(CountOf(jobs, {Passing}), Passing),
                       SummaryNote(CountOf(jobs, {Flaky}), Flaky),
                       SummaryNote(CountOf(jobs, {Failing}), Failing) >>
                    \o (IF stale # 0 THEN <<SummaryNote(stale, Stale)>> ELSE <<>>) ]

\* a variant that ignores the short flag
DetailJobsAlways(short, jobs) == {n \in DOMAIN jobs : jobs[n].OverallStatus # Passing}

\* the jobs getDetails is called for
DetailJobs(short, jobs) ==
    IF ~short THEN {n \in DOMAIN jobs : jobs[n].OverallStatus # Passing} ELSE {}

FieldKey(f) == <<f.Emoji, f.Title>>

InitTestgrid ==
    /\ shortOn \in BOOLEAN
    /\ tgPc = [d \in Dashboards |-> "idle"]
    /\ tgJobsData = [d \in Dashboards |-> EmptyMap]
    /\ tgReportData = [d \in Dashboards |-> <<>>]
    /\ tgWg = 0
    /\ tgCoord = "spawn"
    /\ tgNext = 1
    /\ tgClosed = FALSE
    /\ tgReceived = EmptyMap
    /\ tgConsumer = "range"
    /\ tgAborted = FALSE
    /\ IdleIssues /\ IdleFilter /\ IdleDetails /\ IdleBoard /\ IdleExtra

\* assembleTestgridRequests: wg.Add(1); go func(job testgridJob) {...}(j)
TgSpawn ==
    /\ ~tgAborted /\ tgCoord = "spawn"
    /\ tgWg' = tgWg + 1
    /\ tgPc' = [tgPc EXCEPT ![tgNext] = "fetch"]
    /\ tgNext' = tgNext + 1
    /\ tgCoord' = IF tgNext = Len(RequiredJobs) THEN "wait" ELSE "spawn"
    /\ UNCHANGED <<shortOn, tgJobsData, tgReportData, tgClosed, tgReceived, tgConsumer, tgAborted>>
    /\ UNCHANGED notTestgridVars

\* assembleTestgridRequests: wg.Wait() returns
TgWait ==
    /\ ~tgAborted /\ tgCoord = "wait" /\ tgWg = 0
    /\ tgCoord' = "close"
    /\ UNCHANGED <<shortOn, tgPc, tgJobsData, tgReportData, tgWg, tgNext, tgClosed,
                   tgReceived, tgConsumer, tgAborted>>
    /\ UNCHANGED notTestgridVars

\* assembleTestgridRequests: defer close(c)
TgClose ==
    /\ ~tgAborted /\ tgCoord = "close"
    /\ tgClosed' = TRUE
    /\ tgCoord' = "done"
    /\ UNCHANGED <<shortOn, tgPc, tgJobsData, tgReportData, tgWg, tgNext, tgReceived,
                   tgConsumer, tgAborted>>
    /\ UNCHANGED notTestgridVars

\* the worker: reqTestgridSiteData succeeds; the summary record, then one detail
\* record per job to detail, in the order the map is ranged over
TgFetch(d) ==
    /\ ~tgAborted /\ tgPc[d] = "fetch"
    /\ \E jobsData \in SummaryDocuments(MaxJobs) :
           \E order \in Orders(DetailJobs(shortOn, jobsData)) :
             LET jobBaseUrl == <<"https://testgrid.k8s.io/">> \o RequiredJobs[d].URLName
                 records == <<getSummary(jobsData)>>
                            \o [i \in 1..Len(order) |->
                                  getDetails(order[i], jobsData[order[i]], jobBaseUrl)]
             IN  /\ tgJobsData' = [tgJobsData EXCEPT ![d] = jobsData]
                 /\ tgReportData' = [tgReportData EXCEPT ![d] =
                        [Emoji   |-> RequiredJobs[d].Emoji,
                         Title   |-> RequiredJobs[d].OutputName,
                         Records |-> records]]
    /\ tgPc' = [tgPc EXCEPT ![d] = "send"]
    /\ UNCHANGED <<shortOn, tgWg, tgCoord, tgNext, tgClosed, tgReceived, tgConsumer, tgAborted>>
    /\ UNCHANGED notTestgridVars

\* the worker: reqTestgridSiteData returns an error: log.Fatalf
TgFetchFails(d) ==
    /\ ~tgAborted /\ tgPc[d] = "fetch"
    /\ tgAborted' = TRUE
    /\ UNCHANGED <<shortOn, tgPc, tgJobsData, tgReportData, tgWg, tgCoord, tgNext, tgClosed,
                   tgReceived, tgConsumer>>
    /\ UNCHANGED notTestgridVars

\* the worker: c <- reportData, taken by the receiver of the channel
TgSend(d) ==
    /\ ~tgAborted /\ tgPc[d] = "send" /\ tgConsumer = "range" /\ ~tgClosed
    /\ tgReceived' = MapPut(tgReceived, FieldKey(tgReportData[d]), tgReportData[d].Records)
    /\ tgPc' = [tgPc EXCEPT ![d] = "done"]
    /\ UNCHANGED <<shortOn, tgJobsData, tgReportData, tgWg, tgCoord, tgNext, tgClosed,
                   tgConsumer, tgAborted>>
    /\ UNCHANGED notTestgridVars

\* the worker: wg.Done(), and the goroutine ends
TgDone(d) ==
    /\ ~tgAborted /\ tgPc[d] = "done"
    /\ tgWg' = tgWg - 1
    /\ tgPc' = [tgPc EXCEPT ![d] = "finished"]
    /\ tgJobsData' = [tgJobsData EXCEPT ![d] = EmptyMap]
    /\ tgReportData' = [tgReportData EXCEPT ![d] = <<>>]
    /\ UNCHANGED <<shortOn, tgCoord, tgNext, tgClosed, tgReceived, tgConsumer, tgAborted>>
    /\ UNCHANGED notTestgridVars

\* the receiver finds the channel closed
TgConsumerReturn ==
    /\ ~tgAborted /\ tgConsumer = "range" /\ tgClosed
    /\ tgConsumer' = "returned"
    /\ UNCHANGED <<shortOn, tgPc, tgJobsData, tgReportData, tgWg, tgCoord, tgNext, tgClosed,
                   tgReceived, tgAborted>>
    /\ UNCHANGED notTestgridVars

NextTestgrid ==
    \/ TgSpawn
    \/ TgWait
    \/ TgClose
    \/ \E d \in Dashboards : TgFetch(d)
    \/ \E d \in Dashboards : TgFetchFails(d)
    \/ \E d \in Dashboards : TgSend(d)
    \/ \E d \in Dashboards : TgDone(d)
    \/ TgConsumerReturn

SpecTestgrid == InitTestgrid /\ [][NextTestgrid]_vars

(* ----------------------- claims on the dashboards ---------------------- *)
SummaryIndexes(records) == {i \in 1..Len(records) : records[i].ID = testgridReportSummary}
DetailIndexes(records) == {i \in 1..Len(records) : records[i].ID = testgridReportDetails}

NotPassing(jobs) == {n \in DOMAIN jobs : jobs[n].OverallStatus # Passing}

\* the counts a summary of the document has to show
PassingCount(jobs) == Cardinality({n \in DOMAIN jobs : jobs[n].OverallStatus = Passing})
FlakyCount(jobs)   == Cardinality({n \in DOMAIN jobs : jobs[n].OverallStatus = Flaky})
FailingCount(jobs) == Cardinality({n \in DOMAIN jobs : jobs[n].OverallStatus = Failing})
StaleCount(jobs) ==
    Cardinality({n \in DOMAIN jobs : jobs[n].OverallStatus \notin {Passing, Flaky, Failing}})

FourCounts(jobs) ==
    << [count |-> Cardinality(DOMAIN jobs), text |-> "total"],
       [count |-> PassingCount(jobs), text |-> "passing"],
       [count |-> FlakyCount(jobs), text |-> "flaky"],
       [count |-> FailingCount(jobs), text |-> "failing"] >>

StaleNote(jobs) == [count |-> StaleCount(jobs), text |-> "stale"]

\* one summary record in the field each worker sends, short mode or not, and every
\* worker has sent its field when the channel is closed
OneSummaryEach ==
    /\ \A d \in Dashboards :
          tgPc[d] = "send" => Cardinality(SummaryIndexes(tgReportData[d].Records)) = 1
    /\ tgClosed => \A d \in Dashboards : tgPc[d] = "finished"

CountsAddUp(jobs) ==
    Cardinality(DOMAIN jobs)
        = PassingCount(jobs) + FlakyCount(jobs) + FailingCount(jobs) + StaleCount(jobs)

\* C7 as stated: one summary record per dashboard in either mode, every job counted
\* in exactly one of Passing, Flaky, Failing, Stale, and the record reports all five
\* counts, a stale count of zero included.
C7_SummaryReportsFiveCounts ==
    /\ OneSummaryEach
    /\ \A d \in Dashboards :
          tgPc[d] = "send" =>
              /\ CountsAddUp(tgJobsData[d])
              /\ tgReportData[d].Records[1].Notes
                     = FourCounts(tgJobsData[d]) \o <<StaleNote(tgJobsData[d])>>

\* C7, amended: one summary record per dashboard in either mode, every job counted in
\* exactly one of Passing, Flaky, Failing, Stale (any other status as Stale); the
\* record reports the total, passing, flaky and failing counts, and the stale count
\* only when it is not zero.
C7_SummaryCounts ==
    /\ OneSummaryEach
    /\ \A d \in Dashboards :
          tgPc[d] = "send" =>
              /\ CountsAddUp(tgJobsData[d])
              /\ tgReportData[d].Records[1].ID = testgridReportSummary
              /\ tgReportData[d].Records[1].Notes
                     = FourCounts(tgJobsData[d])
                        \o (IF StaleCount(tgJobsData[d]) # 0
                            THEN <<StaleNote(tgJobsData[d])>> ELSE <<>>)

\* short mode: a dashboard with a passing job and a job of a status without a name
C7_Witness ==
    /\ shortOn
    /\ \E d \in Dashboards :
          /\ tgPc[d] = "send"
          /\ Cardinality(DOMAIN tgJobsData[d]) = 2
          /\ PassingCount(tgJobsData[d]) = 1
          /\ \E n \in DOMAIN tgJobsData[d] : tgJobsData[d][n].OverallStatus = "ACCEPTABLE"
          /\ Len(tgReportData[d].Records[1].Notes) = 5
          /\ tgReportData[d].Records[1].Notes[5] = [count |-> 1, text |-> "stale"]

\* C8: a dashboard's field holds no detail record in short mode; otherwise it holds
\* exactly one detail record for each job that is not passing and none for a
\* passing job.
C8_DetailRecords ==
    \A d \in Dashboards :
        tgPc[d] = "send" =>
            LET records == tgReportData[d].Records
                jobs == tgJobsData[d]
            IN  /\ shortOn => DetailIndexes(records) = {}
                /\ ~shortOn =>
                      /\ Cardinality(DetailIndexes(records)) = Cardinality(NotPassing(jobs))
                      /\ \A n \in NotPassing(jobs) :
                            Cardinality({i \in DetailIndexes(records) :
                                            records[i].Title = n}) = 1
                      /\ \A i \in DetailIndexes(records) : records[i].Title \in NotPassing(jobs)

\* not short: one job passing, one failing, and one detail record
C8_Witness ==
    /\ ~shortOn
    /\ \E d \in Dashboards :
          /\ tgPc[d] = "send"
          /\ Cardinality(DOMAIN tgJobsData[d]) = 2
          /\ PassingCount(tgJobsData[d]) = 1
          /\ FailingCount(tgJobsData[d]) = 1
          /\ Cardinality(DetailIndexes(tgReportData[d].Records)) = 1

(* -------------------------------- board -------------------------------- *)
\* most columns in the answer to ListProjectColumns
MaxColumns == 2
\* most cards in one column
MaxCards == 1

newCardsID                == 4212817
underInvestigationCardsID == 4212819
observingCardsID          == 4212821

notYetStartedEmoji == "U+1F914"
inFlightEmoji      == "U+1F6EB"
observingEmoji     == "U+1F440"
resolvedEmoji      == "U+1F389"

\* a column: GetID() of it, and Name, a pointer: <<>> is nil, <<s>> points to s
ColumnPool ==
    [ ID : {2, 5, 9}, Name : {<<>>, <<"Resolved">>, <<"resolved">>, <<"Observing">>} ]

ColumnAnswers ==
    {NoColumns} \cup {[ok |-> TRUE, cols |-> c] : c \in SeqsUpTo(ColumnPool, MaxColumns)}

RECURSIVE KeepNamed(_, _, _)
\* the loop that appends to resolvedColumns
KeepNamed(cards, keyword, idx) ==
    IF idx > Len(cards) THEN <<>>
    ELSE (IF cards[idx].Name # <<>> /\ cards[idx].Name[1] = keyword
          THEN <<cards[idx]>> ELSE <<>>)
         \o KeepNamed(cards, keyword, idx + 1)

\* one element put into a list sorted by ID
InsertByID(sorted, v) ==
    LET before == {i \in 1..Len(sorted) : sorted[i].ID < v.ID}
        n == Cardinality(before)
    IN  SubSeq(sorted, 1, n) \o <<v>> \o SubSeq(sorted, n + 1, Len(sorted))

RECURSIVE SortByID(_)
\* sort.Slice(resolvedColumns, by GetID())
SortByID(cols) ==
    IF Len(cols) = 0 THEN <<>>
    ELSE InsertByID(SortByID(SubSeq(cols, 1, Len(cols) - 1)), cols[Len(cols)])

\* a variant that does not sort
findCardsIDFirstListed(answer, keyword) ==
    IF ~answer.ok THEN [kind |-> "error", id |-> 0]
    ELSE LET resolvedColumns == KeepNamed(answer.cols, keyword, 1)
         IN  IF Len(resolvedColumns) = 0 THEN [kind |-> "panic", id |-> 0]
             ELSE [kind |-> "ok", id |-> resolvedColumns[1].ID]

\* a variant that returns 0 and no error when no column has the name
findCardsIDZeroWhenMissing(answer, keyword) ==
    IF ~answer.ok THEN [kind |-> "error", id |-> 0]
    ELSE LET resolvedColumns == SortByID(KeepNamed(answer.cols, keyword, 1))
         IN  IF Len(resolvedColumns) = 0 THEN [kind |-> "ok", id |-> 0]
             ELSE [kind |-> "ok", id |-> resolvedColumns[1].ID]

\* findCardsID: "error" is the returned err, "panic" the index out of range of
\* resolvedColumns[0] on an empty slice, "ok" a returned identifier
findCardsID(answer, keyword) ==
    IF ~answer.ok THEN [kind |-> "error", id |-> 0]
    ELSE LET resolvedColumns == SortByID(KeepNamed(answer.cols, keyword, 1))
         IN  IF Len(resolvedColumns) = 0 THEN [kind |-> "panic", id |-> 0]
             ELSE [kind |-> "ok", id |-> resolvedColumns[1].ID]

\* RequestData: the four buckets
githubIssueCardConfigs(resolved) ==
    << [CardsTitle |-> "New/Not Yet Started", CardID |-> newCardsID,
        OmitWithFlagShort |-> FALSE, Emoji |-> notYetStartedEmoji],
       [CardsTitle |-> "In flight", CardID |-> underInvestigationCardsID,
        OmitWithFlagShort |-> FALSE, Emoji |-> inFlightEmoji],
       [CardsTitle |-> "Observing", CardID |-> observingCardsID,
        OmitWithFlagShort |-> TRUE, Emoji |-> observingEmoji],
       [CardsTitle |-> "Resolved", CardID |-> resolved,
        OmitWithFlagShort |-> TRUE, Emoji |-> resolvedEmoji] >>

Buckets == 1..4

\* the issues the cards of a column can lead to
OverviewPool ==
    { [URL |-> IssueURL(n), ID |-> n, Title |-> "t", Sig |-> "Node"] : n \in 1..2 }

InitBoard ==
    /\ shortOn \in BOOLEAN
    /\ columns \in ColumnAnswers
    /\ rdPc = "find"
    /\ resolvedCardsID = 0
    /\ callerWg = 1
    /\ bkPc = [b \in Buckets |-> "idle"]
    /\ bkReportData = [b \in Buckets |-> EmptyMap]
    /\ cardRequests = {}
    /\ ghWg = 0
    /\ ghCoord = "idle"
    /\ ghNext = 1
    /\ ghClosed = FALSE
    /\ reportData = EmptyMap
    /\ IdleIssues /\ IdleFilter /\ IdleDetails /\ IdleTestgrid /\ IdleExtra

\* RequestData: findCardsID(meta.GitHubClient, githubCiSignalBoardProjectID, "Resolved")
RdFind ==
    /\ rdPc = "find"
    /\ LET found == findCardsID(columns, "Resolved")
       IN  /\ rdPc' = CASE found.kind = "ok"    -> "found"
                        [] found.kind = "error" -> "error"
                        [] found.kind = "panic" -> "panic"
           /\ resolvedCardsID' = found.id
    /\ UNCHANGED <<shortOn, columns, callerWg, bkPc, bkReportData, cardRequests, ghWg, ghCoord,
                   ghNext, ghClosed, reportData>>
    /\ UNCHANGED notBoardVars

\* RequestData: the configurations are built and assembleGithubRequests starts its
\* goroutine; nothing holds the column list any more
RdAssemble ==
    /\ rdPc = "found"
    /\ rdPc' = "range"
    /\ ghCoord' = "spawn"
    /\ columns' = NoColumns
    /\ UNCHANGED <<shortOn, resolvedCardsID, callerWg, bkPc, bkReportData, cardRequests, ghWg,
                   ghNext, ghClosed, reportData>>
    /\ UNCHANGED notBoardVars

\* assembleGithubRequests: wg.Add(1); go sortDataIntoDataRecord(meta, c, &wg, cardCfg)
GhSpawn ==
    /\ ghCoord = "spawn"
    /\ ghWg' = ghWg + 1
    /\ bkPc' = [bkPc EXCEPT ![ghNext] = "start"]
    /\ ghNext' = ghNext + 1
    /\ ghCoord' = IF ghNext = Len(githubIssueCardConfigs(resolvedCardsID))
                  THEN "wait" ELSE "spawn"
    /\ UNCHANGED <<shortOn, columns, rdPc, resolvedCardsID, callerWg, bkReportData,
                   cardRequests, ghClosed, reportData>>
    /\ UNCHANGED notBoardVars

\* assembleGithubRequests: wg.Wait() returns
GhWait ==
    /\ ghCoord = "wait" /\ ghWg = 0
    /\ ghCoord' = "close"
    /\ UNCHANGED <<shortOn, columns, rdPc, resolvedCardsID, callerWg, bkPc, bkReportData,
                   cardRequests, ghWg, ghNext, ghClosed, reportData>>
    /\ UNCHANGED notBoardVars

\* assembleGithubRequests: defer close(c)
GhClose ==
    /\ ghCoord = "close"
    /\ ghClosed' = TRUE
    /\ ghCoord' = "done"
    /\ UNCHANGED <<shortOn, columns, rdPc, resolvedCardsID, callerWg, bkPc, bkReportData,
                   cardRequests, ghWg, ghNext, reportData>>
    /\ UNCHANGED notBoardVars

\* a variant that joins the two conditions with "or"
OmittedEither(b) == githubIssueCardConfigs(resolvedCardsID)[b].OmitWithFlagShort \/ shortOn

\* sortDataIntoDataRecord: cardCfg.OmitWithFlagShort && meta.Flags.ShortOn
Omitted(b) == githubIssueCardConfigs(resolvedCardsID)[b].OmitWithFlagShort /\ shortOn

\* a request sent for a column: the listing of its cards (issue 0) or the detail of
\* the issue one of its cards refers to
CardsListing(column) == [kind |-> "cards", column |-> column, issue |-> 0]
IssueDetail(column, n) == [kind |-> "detail", column |-> column, issue |-> n]

\* sortDataIntoDataRecord, bucket not omitted: ListProjectCards is called with the
\* column's identifier, the issues of its cards are collected (none when the call
\* fails) and put under the bucket's field
BkListCards(b) ==
    /\ bkPc[b] = "start" /\ ~Omitted(b)
    /\ LET cardCfg == githubIssueCardConfigs(resolvedCardsID)[b]
       IN  \E overviews \in SeqsUpTo(OverviewPool, MaxCards) :
              /\ cardRequests' = cardRequests \cup {CardsListing(cardCfg.CardID)}
                     \cup {IssueDetail(cardCfg.CardID, overviews[i].ID) :
                              i \in 1..Len(overviews)}
              /\ bkReportData' = [bkReportData EXCEPT ![b] =
                     MapPut(EmptyMap, <<cardCfg.Emoji, cardCfg.CardsTitle>>,
                            [i \in 1..Len(overviews) |->
                                [URL |-> overviews[i].URL, ID |-> overviews[i].ID,
                                 Title |-> overviews[i].Title, Sig |-> overviews[i].Sig]])]
    /\ bkPc' = [bkPc EXCEPT ![b] = "send"]
    /\ UNCHANGED <<shortOn, columns, rdPc, resolvedCardsID, callerWg, ghWg, ghCoord, ghNext,
                   ghClosed, reportData>>
    /\ UNCHANGED notBoardVars

\* sortDataIntoDataRecord, bucket omitted in short mode
BkSkip(b) ==
    /\ bkPc[b] = "start" /\ Omitted(b)
    /\ bkPc' = [bkPc EXCEPT ![b] = "done"]
    /\ UNCHANGED <<shortOn, columns, rdPc, resolvedCardsID, callerWg, bkReportData,
                   cardRequests, ghWg, ghCoord, ghNext, ghClosed, reportData>>
    /\ UNCHANGED notBoardVars

\* sortDataIntoDataRecord: c <- reportData, taken by the range loop of RequestData
BkSend(b) ==
    /\ bkPc[b] = "send" /\ rdPc = "range" /\ ~ghClosed
    /\ reportData' = MapMerge(reportData, bkReportData[b])
    /\ bkPc' = [bkPc EXCEPT ![b] = "done"]
    /\ UNCHANGED <<shortOn, columns, rdPc, resolvedCardsID, callerWg, bkReportData,
                   cardRequests, ghWg, ghCoord, ghNext, ghClosed>>
    /\ UNCHANGED notBoardVars

\* sortDataIntoDataRecord: wg.Done(), and the goroutine ends
BkDone(b) ==
    /\ bkPc[b] = "done"
    /\ ghWg' = ghWg - 1
    /\ bkPc' = [bkPc EXCEPT ![b] = "finished"]
    /\ bkReportData' = [bkReportData EXCEPT ![b] = EmptyMap]
    /\ UNCHANGED <<shortOn, columns, rdPc, resolvedCardsID, callerWg, cardRequests, ghCoord,
                   ghNext, ghClosed, reportData>>
    /\ UNCHANGED notBoardVars

\* RequestData: the range loop ends; r.reportData = reportData; wg.Done(); return
RdReturn ==
    /\ rdPc = "range" /\ ghClosed
    /\ callerWg' = callerWg - 1
    /\ rdPc' = "returned"
    /\ UNCHANGED <<shortOn, columns, resolvedCardsID, bkPc, bkReportData, cardRequests, ghWg,
                   ghCoord, ghNext, ghClosed, reportData>>
    /\ UNCHANGED notBoardVars

NextBoard ==
    \/ RdFind
    \/ RdAssemble
    \/ GhSpawn
    \/ GhWait
    \/ GhClose
    \/ \E b \in Buckets : BkListCards(b)
    \/ \E b \in Buckets : BkSkip(b)
    \/ \E b \in Buckets : BkSend(b)
    \/ \E b \in Buckets : BkDone(b)
    \/ RdReturn

SpecBoard == InitBoard /\ [][NextBoard]_vars

(* ------------------------- claims on the board ------------------------- *)
\* the columns of the answer whose name is exactly the keyword
Named(cols, keyword) == {i \in 1..Len(cols) : cols[i].Name = <<keyword>>}

\* C9: when one or more listed columns are named exactly "Resolved", findCardsID
\* returns the lowest identifier among them, in whatever order they are listed.
C9_LowestColumnID ==
    /\ rdPc = "found" =>
          /\ columns.ok
          /\ Named(columns.cols, "Resolved") # {}
          /\ \E i \in Named(columns.cols, "Resolved") : columns.cols[i].ID = resolvedCardsID
          /\ \A i \in Named(columns.cols, "Resolved") : resolvedCardsID <= columns.cols[i].ID
    /\ (rdPc # "find" /\ columns.ok /\ Named(columns.cols, "Resolved") # {}) => rdPc = "found"

\* the columns 5 and 2, both named Resolved, in this order, resolve to 2
C9_Witness ==
    /\ rdPc = "found"
    /\ columns.cols = << [ID |-> 5, Name |-> <<"Resolved">>], [ID |-> 2, Name |-> <<"Resolved">>] >>
    /\ resolvedCardsID = 2

\* C10: when the listing succeeds and no column is named "Resolved", findCardsID
\* fails without returning an identifier; no card listing is requested and no
\* report is produced.
C10_MissingColumnFails ==
    /\ (rdPc # "find" /\ columns.ok /\ Named(columns.cols, "Resolved") = {}) =>
          /\ rdPc = "panic"
          /\ cardRequests = {}
          /\ reportData = EmptyMap
          /\ ghCoord = "idle"
          /\ \A b \in Buckets : bkPc[b] = "idle"
    /\ rdPc = "panic" => (columns.ok /\ Named(columns.cols, "Resolved") = {})

\* a listing with columns, none of them named Resolved, has made findCardsID fail
C10_Witness ==
    /\ rdPc = "panic"
    /\ Len(columns.cols) = 2
    /\ \E i \in 1..2 : columns.cols[i].Name = <<"resolved">>
    /\ cardRequests = {}

\* the buckets a request of any kind has been sent for
FetchedBuckets ==
    {b \in Buckets : \E r \in cardRequests :
        r.column = githubIssueCardConfigs(resolvedCardsID)[b].CardID}

\* the buckets whose cards have been listed
ListedBuckets ==
    {b \in Buckets :
        CardsListing(githubIssueCardConfigs(resolvedCardsID)[b].CardID) \in cardRequests}

BucketKey(b) ==
    <<githubIssueCardConfigs(resolvedCardsID)[b].Emoji,
      githubIssueCardConfigs(resolvedCardsID)[b].CardsTitle>>

\* the buckets with a field in the report
FieldBuckets == {b \in Buckets : BucketKey(b) \in DOMAIN reportData}

\* New and In flight in short mode, all four buckets otherwise
WantedBuckets == IF shortOn THEN {1, 2} ELSE Buckets

\* C11: in short mode no card listing and no card detail is ever requested for
\* the Observing and Resolved buckets and the report has no field for them, while
\* New and In flight are fetched and have one field each; when short mode is off
\* all four buckets are fetched and have one field each.
C11_ShortModeBuckets ==
    /\ FetchedBuckets \subseteq WantedBuckets
    /\ \A r \in cardRequests : \E b \in WantedBuckets :
          r.column = githubIssueCardConfigs(resolvedCardsID)[b].CardID
    /\ DOMAIN reportData \subseteq {BucketKey(b) : b \in WantedBuckets}
    /\ rdPc = "returned" =>
          /\ ListedBuckets = WantedBuckets
          /\ FieldBuckets = WantedBuckets
          /\ Cardinality(DOMAIN reportData) = Cardinality(WantedBuckets)

\* a short report is returned with the two fields of New and In flight, a card of
\* the New column having been followed to its issue
C11_Witness ==
    /\ shortOn /\ rdPc = "returned"
    /\ Cardinality(DOMAIN reportData) = 2
    /\ \E r \in cardRequests : r.kind = "detail" /\ r.column = newCardsID

(* ------------------------ card path: SIG of an issue ------------------------ *)
\* most labels on the issue a card refers to
MaxSigLabels == 2

\* a string is here the sequence of its characters
LowerLetters ==
    <<"a", "b", "c", "d", "e", "f", "g", "h", "i", "j", "k", "l", "m", "n", "o", "p", "q", "r", "s", "t", "u", "v", "w", "x", "y", "z">>
UpperLetters ==
    <<"A", "B", "C", "D", "E", "F", "G", "H", "I", "J", "K", "L", "M", "N", "O", "P", "Q", "R", "S", "T", "U", "V", "W", "X", "Y", "Z">>

IsLower(c) == \E i \in 1..Len(LowerLetters) : LowerLetters[i] = c
IsUpper(c) == \E i \in 1..Len(UpperLetters) : UpperLetters[i] = c

\* unicode.ToUpper, unicode.ToLower on the characters used
ToUpperChar(c) ==
    IF IsLower(c) THEN UpperLetters[CHOOSE i \in 1..Len(LowerLetters) : LowerLetters[i] = c]
    ELSE c
ToLowerChar(c) ==
    IF IsUpper(c) THEN LowerLetters[CHOOSE i \in 1..Len(UpperLetters) : UpperLetters[i] = c]
    ELSE c

\* strings.ToUpper, strings.ToLower
StrToUpper(s) == [i \in 1..Len(s) |-> ToUpperChar(s[i])]
StrToLower(s) == [i \in 1..Len(s) |-> ToLowerChar(s[i])]

\* strings.EqualFold on these characters: equality up to the case of letters
EqualFold(s, t) == StrToLower(s) = StrToLower(t)

\* strings.Title: a letter is the start of a word when it is the first character or
\* follows a character that is neither a letter, a digit nor an underscore
IsSeparator(c) == ~(IsLower(c) \/ IsUpper(c))
StrTitle(s) ==
    [i \in 1..Len(s) |-> IF i = 1 \/ IsSeparator(s[i - 1]) THEN ToUpperChar(s[i]) ELSE s[i]]

RECURSIVE RemoveAll(_, _)
\* strings.Replace(s, old, "", -1)
RemoveAll(s, old) ==
    IF Len(s) < Len(old) THEN s
    ELSE IF SubSeq(s, 1, Len(old)) = old
         THEN RemoveAll(SubSeq(s, Len(old) + 1, Len(s)), old)
         ELSE <<s[1]>> \o RemoveAll(Tail(s), old)

SigPrefix == <<"s", "i", "g", "/">>
StrCli == <<"c", "l", "i">>
StrClusterLifecycle == <<"c", "l", "u", "s", "t", "e", "r", "-", "l", "i", "f", "e", "c", "y", "c", "l", "e">>

\* assembleCardRequests: the value given to overview.Sig for a label holding "sig/"
normalizeSig(name) ==
    LET titled == StrTitle(RemoveAll(name, SigPrefix))
        upper  == IF EqualFold(titled, StrCli) THEN StrToUpper(titled) ELSE titled
    IN  IF EqualFold(upper, StrClusterLifecycle) THEN StrToLower(upper) ELSE upper

RECURSIVE SigLoopAll(_, _, _)
\* a variant without the break: a later label holding "sig/" replaces the value
SigLoopAll(labels, idx, sig) ==
    IF idx > Len(labels) THEN [kind |-> "ok", Sig |-> sig]
    ELSE IF labels[idx].Name = <<>> THEN [kind |-> "panic", Sig |-> <<>>]
    ELSE IF Contains(labels[idx].Name[1], SigPrefix)
         THEN SigLoopAll(labels, idx + 1, normalizeSig(labels[idx].Name[1]))
         ELSE SigLoopAll(labels, idx + 1, sig)

RECURSIVE SigLoop(_, _, _)
\* assembleCardRequests: for _, v := range issueDetail.Labels, left at the first
\* label holding "sig/"; *v.Name of a label without name is a nil dereference
SigLoop(labels, idx, sig) ==
    IF idx > Len(labels) THEN [kind |-> "ok", Sig |-> sig]
    ELSE IF labels[idx].Name = <<>> THEN [kind |-> "panic", Sig |-> <<>>]
    ELSE IF Contains(labels[idx].Name[1], SigPrefix)
         THEN [kind |-> "ok", Sig |-> normalizeSig(labels[idx].Name[1])]
         ELSE SigLoop(labels, idx + 1, sig)

\* a variant that reads every label
cardSigLastMatch(labels) == SigLoopAll(labels, 1, <<>>)

\* the Sig of the overview of an issue with these labels; "" when no label holds "sig/"
cardSig(labels) == SigLoop(labels, 1, <<>>)

LabelSigCli              == <<"s", "i", "g", "/", "c", "l", "i">>
LabelSigCliUpper         == <<"s", "i", "g", "/", "C", "L", "I">>
LabelSigClusterLifecycle == <<"s", "i", "g", "/", "c", "l", "u", "s", "t", "e", "r", "-", "l", "i", "f", "e", "c", "y", "c", "l", "e">>
LabelSigNode             == <<"s", "i", "g", "/", "n", "o", "d", "e">>
LabelSigApiMachinery     == <<"s", "i", "g", "/", "a", "p", "i", "-", "m", "a", "c", "h", "i", "n", "e", "r", "y">>
LabelNeedsSigNode        == <<"n", "e", "e", "d", "s", "-", "s", "i", "g", "/", "n", "o", "d", "e">>
LabelKindBug             == <<"k", "i", "n", "d", "/", "b", "u", "g">>

\* the labels of card issues: Name is a pointer, <<>> is nil
SigLabelPool ==
    { [Name |-> <<>>] } \cup
    { [Name |-> <<n>>] : n \in {LabelSigCli, LabelSigCliUpper, LabelSigClusterLifecycle,
                                LabelSigNode, LabelSigApiMachinery, LabelNeedsSigNode,
                                LabelKindBug} }

InitSig ==
    /\ sigLabels \in SeqsUpTo(SigLabelPool, MaxSigLabels)
    /\ sigResult = <<>>
    /\ sigPc = "start"
    /\ IdleFirst /\ IdleMeta /\ IdleCards /\ IdleTransform /\ IdleRequests

\* the card goroutine runs the label loop on the issue detail it received
CallCardSig ==
    /\ sigPc = "start"
    /\ sigResult' = cardSig(sigLabels)
    /\ sigPc' = "done"
    /\ UNCHANGED sigLabels
    /\ UNCHANGED notSigVars

NextSig == CallCardSig

SpecSig == InitSig /\ [][NextSig]_vars

\* the labels whose name holds "sig/"
SigMatches(labels) ==
    {i \in 1..Len(labels) : labels[i].Name # <<>> /\ Contains(labels[i].Name[1], SigPrefix)}

\* the labels without a name
Nameless(labels) == {i \in 1..Len(labels) : labels[i].Name = <<>>}

FirstOf(S) == CHOOSE i \in S : \A j \in S : i <= j

\* the label is sig/<name>, and the name
IsSigLabel(name) == Len(name) > Len(SigPrefix) /\ SubSeq(name, 1, Len(SigPrefix)) = SigPrefix
SigName(name) == SubSeq(name, Len(SigPrefix) + 1, Len(name))

\* the Sig expected for the names of the pool
ExpectedSig(name) ==
    CASE name = <<"c", "l", "i">>     -> <<"C", "L", "I">>
      [] name = <<"C", "L", "I">>    -> <<"C", "L", "I">>
      [] name = <<"c", "l", "u", "s", "t", "e", "r", "-", "l", "i", "f", "e", "c", "y", "c", "l", "e">> -> <<"c", "l", "u", "s", "t", "e", "r", "-", "l", "i", "f", "e", "c", "y", "c", "l", "e">>
      [] name = <<"n", "o", "d", "e">>    -> <<"N", "o", "d", "e">>
      [] name = <<"a", "p", "i", "-", "m", "a", "c", "h", "i", "n", "e", "r", "y">>     -> <<"A", "p", "i", "-", "M", "a", "c", "h", "i", "n", "e", "r", "y">>

\* C12: the Sig of a card's issue comes from the first label, in label order, that
\* holds sig/<name>, normalized: cli gives CLI, cluster-lifecycle gives
\* cluster-lifecycle, any other name its title case (node gives Node); the labels
\* after that first one never change the result.
C12_FirstSigNormalized ==
    (sigPc = "done" /\ sigResult.kind = "ok") =>
        IF SigMatches(sigLabels) = {} THEN sigResult.Sig = <<>>
        ELSE LET first == FirstOf(SigMatches(sigLabels))
                 name  == sigLabels[first].Name[1]
             IN  /\ IsSigLabel(name) => sigResult.Sig = ExpectedSig(SigName(name))
                 /\ sigResult = cardSig(SubSeq(sigLabels, 1, first))

\* sig/node followed by sig/cli has given Node
C12_Witness ==
    /\ sigPc = "done"
    /\ sigLabels = << [Name |-> <<LabelSigNode>>], [Name |-> <<LabelSigCli>>] >>
    /\ sigResult = [kind |-> "ok", Sig |-> <<"N", "o", "d", "e">>]

(* --------------------- card path: the cards of a column --------------------- *)
\* most cards in the column whose cards are followed
MaxBucketCards == 2

\* a card: ContentURL is a pointer, <<>> is nil, <<n>> the URL of issue n
CardPool == { [ContentURL |-> <<>>] } \cup { [ContentURL |-> <<n>>] : n \in 1..2 }

CardListings ==
    {NoCards} \cup {[ok |-> TRUE, cards |-> c] : c \in SeqsUpTo(CardPool, MaxBucketCards)}

FailingTestTag == <<"[Failing Test]">>

\* the documents the content URL of issue n can answer with
DetailPool(n) ==
    { [Number |-> n, HTMLURL |-> IssueURL(n), Title |-> FailingTestTag \o <<" flaky e2e">>,
       Labels |-> l] :
         l \in { <<>>, << [Name |-> <<LabelSigNode>>] >>, << [Name |-> <<>>] >> } }

\* ghIssueDetail{}, ghIssueOverview of it
EmptyDetail == [Number |-> 0, HTMLURL |-> <<>>, Title |-> <<>>, Labels |-> <<>>]

\* assembleCardRequests: the overview built from an issue detail, before the labels
overviewOf(issueDetail, sig) ==
    [URL |-> issueDetail.HTMLURL, ID |-> issueDetail.Number,
     Title |-> RemoveAll(issueDetail.Title, FailingTestTag), Sig |-> sig]

InitCards ==
    /\ cdListing \in CardListings
    /\ cdCoord = "list"
    /\ cdNext = 1
    /\ cdWg = 0
    /\ cdClosed = FALSE
    /\ cdPc = [k \in 1..Len(cdListing.cards) |-> "idle"]
    /\ cdOverview = [k \in 1..Len(cdListing.cards) |-> EmptyDetail]
    /\ cdRecords = <<>>
    /\ cdConsumer = "range"
    /\ cdField = <<>>
    /\ cdLogged = {}
    /\ cdCrashed = FALSE
    /\ IdleFirst /\ IdleMeta /\ IdleSig /\ IdleTransform /\ IdleRequests

\* a variant in which a failed listing ends the process
CdListFatal ==
    /\ cdCoord = "list" /\ ~cdCrashed
    /\ cdLogged' = IF cdListing.ok THEN cdLogged ELSE cdLogged \cup {"error when querying cards"}
    /\ cdCrashed' = ~cdListing.ok
    /\ cdCoord' = IF Len(cdListing.cards) = 0 THEN "wait" ELSE "spawn"
    /\ UNCHANGED <<cdListing, cdNext, cdWg, cdClosed, cdPc, cdOverview, cdRecords, cdConsumer,
                   cdField>>
    /\ UNCHANGED notCardVars

\* assembleCardRequests: ListProjectCards has answered; an error is written to the
\* log and the goroutine is started on the cards received (none after an error)
CdList ==
    /\ cdCoord = "list" /\ ~cdCrashed
    /\ cdLogged' = IF cdListing.ok THEN cdLogged ELSE cdLogged \cup {"error when querying cards"}
    /\ cdCoord' = IF Len(cdListing.cards) = 0 THEN "wait" ELSE "spawn"
    /\ UNCHANGED <<cdListing, cdNext, cdWg, cdClosed, cdPc, cdOverview, cdRecords, cdConsumer,
                   cdField, cdCrashed>>
    /\ UNCHANGED notCardVars

\* a variant that starts the card goroutine without wg.Add(1)
CdSpawnNoAdd ==
    /\ cdCoord = "spawn" /\ ~cdCrashed
    /\ cdPc' = [cdPc EXCEPT ![cdNext] = "start"]
    /\ cdNext' = cdNext + 1
    /\ cdCoord' = IF cdNext = Len(cdListing.cards) THEN "wait" ELSE "spawn"
    /\ UNCHANGED <<cdListing, cdWg, cdClosed, cdOverview, cdRecords, cdConsumer, cdField,
                   cdLogged, cdCrashed>>
    /\ UNCHANGED notCardVars

\* assembleCardRequests: wg.Add(1); go func(card, token)
CdSpawn ==
    /\ cdCoord = "spawn" /\ ~cdCrashed
    /\ cdWg' = cdWg + 1
    /\ cdPc' = [cdPc EXCEPT ![cdNext] = "start"]
    /\ cdNext' = cdNext + 1
    /\ cdCoord' = IF cdNext = Len(cdListing.cards) THEN "wait" ELSE "spawn"
    /\ UNCHANGED <<cdListing, cdClosed, cdOverview, cdRecords, cdConsumer, cdField, cdLogged,
                   cdCrashed>>
    /\ UNCHANGED notCardVars

\* assembleCardRequests: wg.Wait() returns
CdWait ==
    /\ cdCoord = "wait" /\ cdWg = 0 /\ ~cdCrashed
    /\ cdCoord' = "close"
    /\ UNCHANGED <<cdListing, cdNext, cdWg, cdClosed, cdPc, cdOverview, cdRecords, cdConsumer,
                   cdField, cdLogged, cdCrashed>>
    /\ UNCHANGED notCardVars

\* assembleCardRequests: defer close(c)
CdClose ==
    /\ cdCoord = "close" /\ ~cdCrashed
    /\ cdClosed' = TRUE
    /\ cdCoord' = "done"
    /\ UNCHANGED <<cdListing, cdNext, cdWg, cdPc, cdOverview, cdRecords, cdConsumer, cdField,
                   cdLogged, cdCrashed>>
    /\ UNCHANGED notCardVars

\* card goroutine: card.ContentURL == nil, nothing is sent
CdNoContent(k) ==
    /\ k \in DOMAIN cdPc /\ cdPc[k] = "start" /\ ~cdCrashed
    /\ cdListing.cards[k].ContentURL = <<>>
    /\ cdPc' = [cdPc EXCEPT ![k] = "done"]
    /\ UNCHANGED <<cdListing, cdCoord, cdNext, cdWg, cdClosed, cdOverview, cdRecords,
                   cdConsumer, cdField, cdLogged, cdCrashed>>
    /\ UNCHANGED notCardVars

\* card goroutine: requestGhIssueDetail returns a document; the overview is built
\* and the label loop run (a label without name makes it panic)
CdDetail(k) ==
    /\ k \in DOMAIN cdPc /\ cdPc[k] = "start" /\ ~cdCrashed
    /\ cdListing.cards[k].ContentURL # <<>>
    /\ \E issueDetail \in DetailPool(cdListing.cards[k].ContentURL[1]) :
          LET loop == cardSig(issueDetail.Labels)
          IN  IF loop.kind = "panic"
              THEN cdCrashed' = TRUE /\ UNCHANGED <<cdPc, cdOverview>>
              ELSE /\ cdOverview' = [cdOverview EXCEPT ![k] = overviewOf(issueDetail, loop.Sig)]
                   /\ cdPc' = [cdPc EXCEPT ![k] = "send"]
                   /\ UNCHANGED cdCrashed
    /\ UNCHANGED <<cdListing, cdCoord, cdNext, cdWg, cdClosed, cdRecords, cdConsumer, cdField,
                   cdLogged>>
    /\ UNCHANGED notCardVars

\* card goroutine: requestGhIssueDetail cannot build the request, read the body or
\* decode it and returns ghIssueDetail{} and the error; the error is written to the
\* log and the overview of the empty detail is sent
CdDetailFails(k) ==
    /\ k \in DOMAIN cdPc /\ cdPc[k] = "start" /\ ~cdCrashed
    /\ cdListing.cards[k].ContentURL # <<>>
    /\ cdLogged' = cdLogged \cup {"Error on requesting github card information."}
    /\ cdOverview' = [cdOverview EXCEPT ![k] = overviewOf(EmptyDetail, cardSig(EmptyDetail.Labels).Sig)]
    /\ cdPc' = [cdPc EXCEPT ![k] = "send"]
    /\ UNCHANGED <<cdListing, cdCoord, cdNext, cdWg, cdClosed, cdRecords, cdConsumer, cdField,
                   cdCrashed>>
    /\ UNCHANGED notCardVars

\* card goroutine: client.Do fails in requestGhIssueDetail; the error is written to
\* the log and resp.Body of the nil response is a nil dereference
CdDetailNoResponse(k) ==
    /\ k \in DOMAIN cdPc /\ cdPc[k] = "start" /\ ~cdCrashed
    /\ cdListing.cards[k].ContentURL # <<>>
    /\ cdLogged' = cdLogged \cup {"Error on response."}
    /\ cdCrashed' = TRUE
    /\ UNCHANGED <<cdListing, cdCoord, cdNext, cdWg, cdClosed, cdPc, cdOverview, cdRecords,
                   cdConsumer, cdField>>
    /\ UNCHANGED notCardVars

\* card goroutine: c <- overview, taken by the range loop of sortDataIntoDataRecord,
\* which appends the record
CdSend(k) ==
    /\ k \in DOMAIN cdPc /\ cdPc[k] = "send" /\ ~cdCrashed
    /\ cdConsumer = "range" /\ ~cdClosed
    /\ cdRecords' = Append(cdRecords,
                       [URL |-> cdOverview[k].URL, ID |-> cdOverview[k].ID,
                        Title |-> cdOverview[k].Title, Sig |-> cdOverview[k].Sig])
    /\ cdPc' = [cdPc EXCEPT ![k] = "done"]
    /\ UNCHANGED <<cdListing, cdCoord, cdNext, cdWg, cdClosed, cdOverview, cdConsumer, cdField,
                   cdLogged, cdCrashed>>
    /\ UNCHANGED notCardVars

\* card goroutine: wg.Done(), and the goroutine ends
CdDone(k) ==
    /\ k \in DOMAIN cdPc /\ cdPc[k] = "done" /\ ~cdCrashed
    /\ cdWg' = cdWg - 1
    /\ cdPc' = [cdPc EXCEPT ![k] = "finished"]
    /\ UNCHANGED <<cdListing, cdCoord, cdNext, cdClosed, cdOverview, cdRecords, cdConsumer,
                   cdField, cdLogged, cdCrashed>>
    /\ UNCHANGED notCardVars

\* sortDataIntoDataRecord: the range loop ends, the records are put under the
\* bucket's field and sent: c <- reportData
CdBuild ==
    /\ cdConsumer = "range" /\ cdClosed /\ ~cdCrashed
    /\ cdField' = cdRecords
    /\ cdConsumer' = "sent"
    /\ UNCHANGED <<cdListing, cdCoord, cdNext, cdWg, cdClosed, cdPc, cdOverview, cdRecords,
                   cdLogged, cdCrashed>>
    /\ UNCHANGED notCardVars

CardWorkers == 1..MaxBucketCards

NextCards ==
    \/ CdList
    \/ CdSpawn
    \/ CdWait
    \/ CdClose
    \/ \E k \in CardWorkers : CdNoContent(k)
    \/ \E k \in CardWorkers : CdDetail(k)
    \/ \E k \in CardWorkers : CdDetailFails(k)
    \/ \E k \in CardWorkers : CdDetailNoResponse(k)
    \/ \E k \in CardWorkers : CdSend(k)
    \/ \E k \in CardWorkers : CdDone(k)
    \/ CdBuild

SpecCards == InitCards /\ [][NextCards]_vars

(* ----------------------- claims on record identifiers ----------------------- *)
\* no identifier occurs twice in a sequence of records
UniqueIds(records) ==
    \A i, j \in 1..Len(records) : records[i].ID = records[j].ID => i = j

\* C13: in the report of a source, no two records under the same field have the
\* same id (stated here for the fields the dashboard workers build).
C13_UniqueRecordIds ==
    \A d \in Dashboards : tgPc[d] = "send" => UniqueIds(tgReportData[d].Records)

(* ------------------ claims on the map of collected issues ------------------ *)
\* the pages that have been received by the range loop of GetGithubIssues
Received(k) == pc[k] \in {"done", "finished"}

\* the issue numbers that pass the filter on page k of the listing
PassingOn(k) == DOMAIN filterGithubIssues(ServerPage(<<k>>))

\* C14: the map of GetGithubIssues holds one entry per issue number, the entry of a
\* number being the one of the page whose result was written into the map last;
\* when the map is returned every issue number that passes the filter on at least
\* one page is in it.
C14_LastWriteWins ==
    /\ DOMAIN lastWriter = DOMAIN collectedIssues
    /\ \A n \in DOMAIN collectedIssues :
          /\ collectedIssues[n].Number = n
          /\ Received(lastWriter[n])
          /\ n \in PassingOn(lastWriter[n])
          /\ collectedIssues[n] = filterGithubIssues(requestedIssues[lastWriter[n]])[n]
    /\ \A k \in Pages : Received(k) => PassingOn(k) \subseteq DOMAIN collectedIssues
    /\ consumer = "returned" =>
          \A k \in 1..CeilPages : PassingOn(k) \subseteq DOMAIN collectedIssues

\* issue 1 passes the filter on page 1 and, edited, on page 2; page 1 was written
\* last and its entry is the one returned
C14_Witness ==
    /\ consumer = "returned" /\ perPage = 1 /\ Len(upstream) = 2
    /\ upstream[1].Number = 1 /\ upstream[2].Number = 1
    /\ upstream[1].Title # upstream[2].Title
    /\ PassingOn(1) = {1} /\ PassingOn(2) = {1}
    /\ lastWriter[1] = 1
    /\ collectedIssues[1] = upstream[1]

(* ------------------------- a run of any one pipeline ------------------------- *)
\* the issue listing, the dashboards, the board or the cards of one column
InitRun == InitIssues \/ InitTestgrid \/ InitBoard \/ InitCards

NextRun ==
    \/ (coord # "idle" /\ NextIssues)
    \/ (tgCoord # "idle" /\ NextTestgrid)
    \/ (rdPc # "idle" /\ NextBoard)
    \/ (cdCoord # "idle" /\ NextCards)

SpecRun == InitRun /\ [][NextRun]_vars

(* ----------------------------- claims on failures ---------------------------- *)
\* a request of the cards pipeline has failed
CardFetchFailed == cdLogged # {}

\* the records of a field that were built from an empty issue detail
EmptyRecords(records) == {i \in 1..Len(records) : records[i].ID = EmptyDetail.Number}

\* the original statement of C15: the first failed fetch aborts the run and no
\* report, partial or complete, is produced after it (stated here for the card
\* listing and the card details of a column).
C15_AnyFailureAborts == CardFetchFailed => cdConsumer # "sent"

\* C15: a failed issue page or dashboard summary aborts the run, a failed column
\* listing makes RequestData return the error, and a card detail request without a
\* response ends the process, all without a report; a failed card listing and an
\* unreadable or undecodable card detail are written to the log and the run goes
\* on: the bucket's field is reported, without records after a failed listing and
\* with the record of an empty detail for each failed detail.
C15_FailureOutcomes ==
    /\ aborted => consumer # "returned"
    /\ tgAborted => tgConsumer # "returned"
    /\ rdPc = "error" =>
          reportData = EmptyMap /\ cardRequests = {} /\ ghCoord = "idle"
    /\ cdCrashed => cdConsumer # "sent"
    /\ (cdCoord \notin {"idle", "list"} /\ ~cdListing.ok) =>
          /\ "error when querying cards" \in cdLogged
          /\ ~cdCrashed
          /\ DOMAIN cdPc = {}
    /\ \A k \in DOMAIN cdPc :
          (cdPc[k] = "send" /\ cdOverview[k].ID = EmptyDetail.Number) =>
              "Error on requesting github card information." \in cdLogged
    /\ cdConsumer = "sent" =>
          /\ ~cdListing.ok => cdField = <<>>
          /\ ("Error on requesting github card information." \in cdLogged)
                <=> (EmptyRecords(cdField) # {})

\* one of two card details could not be decoded, and the field was sent with the
\* record of the other card and the record of an empty detail
C15_Witness ==
    /\ cdConsumer = "sent"
    /\ "Error on requesting github card information." \in cdLogged
    /\ Len(cdField) = 2
    /\ Cardinality(EmptyRecords(cdField)) = 1

\* C16: a failure on a page of the issue listing does not abort the process (the
\* fetch hands the error to its caller), and the fetch never returns a map from
\* which the issues of a page are missing.
C16_PageFailurePropagates ==
    /\ ~aborted
    /\ consumer = "returned" =>
          \A k \in 1..CeilPages : PassingOn(k) \subseteq DOMAIN collectedIssues

(* ------------------------ claims on the join barriers ------------------------ *)
\* the workers that have been started and have not yet called Done
Unfinished(pcs) == {w \in DOMAIN pcs : pcs[w] \notin {"idle", "finished"}}

\* the record sortDataIntoDataRecord makes of the overview of card k
RecordOfCard(k) ==
    [URL |-> cdOverview[k].URL, ID |-> cdOverview[k].ID,
     Title |-> cdOverview[k].Title, Sig |-> cdOverview[k].Sig]

\* the cards that carry a content URL
WithContent == {k \in 1..Len(cdListing.cards) : cdListing.cards[k].ContentURL # <<>>}

\* C17: in the pipelines of the board buckets, of the cards of a column and of the
\* dashboards, the join barrier is never negative and counts the workers started
\* and not yet done, a worker calling Done only after its send; the channel is
\* closed, and the consumer returns, only after every worker is done, and what
\* the consumer has merged holds every entry a worker sent.
C17_JoinBarriers ==
    /\ ghWg >= 0 /\ ghWg = Cardinality(Unfinished(bkPc))
    /\ ghClosed => \A b \in DOMAIN bkPc : bkPc[b] = "finished"
    /\ rdPc = "returned" => ghClosed
    /\ \A b \in DOMAIN bkPc :
          bkPc[b] = "done" /\ ~Omitted(b) =>
             /\ BucketKey(b) \in DOMAIN reportData
             /\ reportData[BucketKey(b)] = bkReportData[b][BucketKey(b)]
    /\ cdWg >= 0 /\ cdWg = Cardinality(Unfinished(cdPc))
    /\ cdClosed => \A k \in DOMAIN cdPc : cdPc[k] = "finished"
    /\ cdConsumer = "sent" => cdClosed /\ cdField = cdRecords
    /\ Len(cdRecords) = Cardinality({k \in WithContent : cdPc[k] \in {"done", "finished"}})
    /\ \A k \in WithContent :
          cdPc[k] \in {"done", "finished"} =>
             \E i \in 1..Len(cdRecords) : cdRecords[i] = RecordOfCard(k)
    /\ tgWg >= 0 /\ tgWg = Cardinality(Unfinished(tgPc))
    /\ tgClosed => \A d \in DOMAIN tgPc : tgPc[d] = "finished"
    /\ tgConsumer = "returned" => tgClosed
    /\ \A d \in DOMAIN tgPc :
          tgPc[d] = "done" =>
             /\ FieldKey(tgReportData[d]) \in DOMAIN tgReceived
             /\ tgReceived[FieldKey(tgReportData[d])] = tgReportData[d].Records

\* the two cards of a column have been followed without an error, both workers are
\* done and the field was sent with their two records
C17_Witness ==
    /\ cdConsumer = "sent" /\ cdLogged = {}
    /\ cdWg = 0 /\ Len(cdField) = 2
    /\ \A k \in DOMAIN cdPc : cdPc[k] = "finished"

(* ------------------- issue path: the records of the issues ------------------- *)
\* most issues in the map given to transformIntoReportData
MaxTransformIssues == 2

\* time in days: the day of time.Now(), the day three months and the day five days
\* before it, the day of the zero time.Time that an unparsable string is parsed to
Now == 100
AddMonths(day, months) == day + 30 * months
AddDays(day, days) == day + days
ZeroTime == 0

statusOldEmoji == "statusOldEmoji"
statusNewEmoji == "statusNewEmoji"
colorGreen == "colorGreen"
colorRed   == "colorRed"
colorBlue  == "colorBlue"

\* time.Parse(layout, s): a timestamp is <<day>>, any other string is <<>>
ParseTime(createdAt) == IF createdAt = <<>> THEN ZeroTime ELSE createdAt[1]

\* checkTimeBefore
checkTimeBefore(createdAt, u) == ParseTime(createdAt) < u

\* a variant that marks as fresh what was created before the day five days ago
highlightOfFreshBefore(createdAt) ==
    (IF checkTimeBefore(createdAt, AddMonths(Now, -3)) THEN <<statusOldEmoji>> ELSE <<>>)
    \o (IF checkTimeBefore(createdAt, AddDays(Now, -5)) THEN <<statusNewEmoji>> ELSE <<>>)

\* transformIntoReportData: highlight
highlightOf(createdAt) ==
    (IF checkTimeBefore(createdAt, AddMonths(Now, -3)) THEN <<statusOldEmoji>> ELSE <<>>)
    \o (IF ~checkTimeBefore(createdAt, AddDays(Now, -5)) THEN <<statusNewEmoji>> ELSE <<>>)

RECURSIVE LettersFrom(_, _)
\* the run of letters of s that starts at position i
LettersFrom(s, i) ==
    IF i > Len(s) \/ IsSeparator(s[i]) THEN <<>> ELSE <<s[i]>> \o LettersFrom(s, i + 1)

\* sigRegex.FindString(name) for sig/[a-zA-Z]+ : the leftmost match, "" without one
FindSigString(name) ==
    LET starts == {i \in 1..Len(name) :
                      /\ i + Len(SigPrefix) <= Len(name)
                      /\ SubSeq(name, i, i + Len(SigPrefix) - 1) = SigPrefix
                      /\ ~IsSeparator(name[i + Len(SigPrefix)])}
    IN  IF starts = {} THEN <<>>
        ELSE LET i == CHOOSE j \in starts : \A k \in starts : j <= k
             IN  SigPrefix \o LettersFrom(name, i + Len(SigPrefix))

StrPriority == <<"p", "r", "i", "o", "r", "i", "t", "y">>
StrKind == <<"k", "i", "n", "d", "/">>

RECURSIVE LabelNotes(_, _)
\* the loop over issue.Labels: the matches appended to sigsInvolved and the pieces
\* appended to lablesToNote
LabelNotes(labels, idx) ==
    IF idx > Len(labels) THEN [sigsInvolved |-> <<>>, lablesToNote |-> <<>>]
    ELSE LET name == labels[idx].Name
             rest == LabelNotes(labels, idx + 1)
             sig  == FindSigString(name)
         IN  [sigsInvolved |-> (IF sig # <<>> THEN <<sig>> ELSE <<>>) \o rest.sigsInvolved,
              lablesToNote |->
                  (IF Contains(name, StrPriority) THEN << <<colorGreen, name>> >> ELSE <<>>)
                  \o (IF Contains(name, StrKind) THEN << <<colorRed, name>> >> ELSE <<>>)
                  \o rest.lablesToNote]

\* the field the goroutine of an issue sends
fieldOfIssue(issue) ==
    LET loop == LabelNotes(issue.Labels, 1)
        lablesToNote == loop.lablesToNote
                        \o (IF issue.Milestone # <<>>
                            THEN << <<colorBlue, "milestone", issue.Milestone[1]>> >> ELSE <<>>)
        notes == << <<"Created", issue.CreatedAt, "Updated", issue.UpdatedAt,
                      "Comments", issue.Comments>> >>
                 \o (IF lablesToNote # <<>> THEN <<lablesToNote>> ELSE <<>>)
    IN  [Emoji |-> "", Title |-> "",
         Records |-> << [URL |-> issue.HTMLURL, ID |-> issue.Number, Title |-> issue.Title,
                         Notes |-> notes, Sig |-> loop.sigsInvolved,
                         Highlight |-> highlightOf(issue.CreatedAt)] >>]

\* the label lists of the issues
TransformLabels ==
    { <<>>,
      << [Name |-> LabelSigNode], [Name |-> <<"k", "i", "n", "d", "/", "f", "a", "i", "l", "i", "n", "g", "-", "t", "e", "s", "t">>] >>,
      << [Name |-> <<"p", "r", "i", "o", "r", "i", "t", "y", "/", "c", "r", "i", "t", "i", "c", "a", "l", "-", "u", "r", "g", "e", "n", "t">>], [Name |-> LabelSigApiMachinery] >> }

\* creation timestamps: unparsable, the last day older than three months and the
\* first that is not, the last day older than five days and the first that is not
TransformCreated ==
    { <<>>, <<AddMonths(Now, -3) - 1>>, <<AddMonths(Now, -3)>>,
      <<AddDays(Now, -5) - 1>>, <<AddDays(Now, -5)>> }

\* the issues that can stand under number n
TransformPool(n) ==
    { [Number |-> n, HTMLURL |-> IssueURL(n), Title |-> "flaky e2e", Labels |-> l,
       Milestone |-> <<>>, Comments |-> 3, CreatedAt |-> c, UpdatedAt |-> <<Now>>] :
          l \in TransformLabels, c \in TransformCreated }
    \cup
    { [Number |-> n, HTMLURL |-> IssueURL(n), Title |-> "flaky e2e", Labels |-> <<>>,
       Milestone |-> <<"v1.23">>, Comments |-> 3, CreatedAt |-> <<50>>, UpdatedAt |-> <<Now>>] }

\* the maps from issue number to issue
IssueMaps ==
    UNION { {m \in [D -> UNION {TransformPool(n) : n \in D}] : \A n \in D : m[n].Number = n} :
              D \in SUBSET (1..MaxTransformIssues) }

InitTransform ==
    /\ trIssues \in IssueMaps
    /\ trPc = [n \in DOMAIN trIssues |-> "idle"]
    /\ trWg = 0
    /\ trCoord = "spawn"
    /\ trClosed = FALSE
    /\ trSent = <<>>
    /\ trConsumer = "range"
    /\ IdleFirst /\ IdleMeta /\ IdleSig /\ IdleCards /\ IdleRequests

\* transformIntoReportData: wg.Add(1); go func(issue), for the issues of the map in
\* the order its iteration gives
TrSpawn(n) ==
    /\ trCoord = "spawn" /\ n \in DOMAIN trPc /\ trPc[n] = "idle"
    /\ trWg' = trWg + 1
    /\ trPc' = [trPc EXCEPT ![n] = "send"]
    /\ UNCHANGED <<trIssues, trCoord, trClosed, trSent, trConsumer>>
    /\ UNCHANGED notTransformVars

\* transformIntoReportData: the loop is over
TrSpawned ==
    /\ trCoord = "spawn" /\ \A n \in DOMAIN trPc : trPc[n] # "idle"
    /\ trCoord' = "wait"
    /\ UNCHANGED <<trIssues, trPc, trWg, trClosed, trSent, trConsumer>>
    /\ UNCHANGED notTransformVars

\* transformIntoReportData: wg.Wait() returns
TrWait ==
    /\ trCoord = "wait" /\ trWg = 0
    /\ trCoord' = "close"
    /\ UNCHANGED <<trIssues, trPc, trWg, trClosed, trSent, trConsumer>>
    /\ UNCHANGED notTransformVars

\* transformIntoReportData: defer close(c)
TrClose ==
    /\ trCoord = "close"
    /\ trClosed' = TRUE
    /\ trCoord' = "done"
    /\ UNCHANGED <<trIssues, trPc, trWg, trSent, trConsumer>>
    /\ UNCHANGED notTransformVars

\* the goroutine of an issue: the record is built and c <- ReportDataField{...} is
\* taken by the receiver of the channel
TrSend(n) ==
    /\ n \in DOMAIN trPc /\ trPc[n] = "send" /\ trConsumer = "range" /\ ~trClosed
    /\ trSent' = Append(trSent, fieldOfIssue(trIssues[n]))
    /\ trPc' = [trPc EXCEPT ![n] = "done"]
    /\ UNCHANGED <<trIssues, trWg, trCoord, trClosed, trConsumer>>
    /\ UNCHANGED notTransformVars

\* the goroutine of an issue: wg.Done()
TrDone(n) ==
    /\ n \in DOMAIN trPc /\ trPc[n] = "done"
    /\ trWg' = trWg - 1
    /\ trPc' = [trPc EXCEPT ![n] = "finished"]
    /\ UNCHANGED <<trIssues, trCoord, trClosed, trSent, trConsumer>>
    /\ UNCHANGED notTransformVars

\* the receiver finds the channel closed
TrConsumerReturn ==
    /\ trConsumer = "range" /\ trClosed
    /\ trConsumer' = "returned"
    /\ UNCHANGED <<trIssues, trPc, trWg, trCoord, trClosed, trSent>>
    /\ UNCHANGED notTransformVars

TransformWorkers == 1..MaxTransformIssues

NextTransform ==
    \/ \E n \in TransformWorkers : TrSpawn(n)
    \/ TrSpawned
    \/ TrWait
    \/ TrClose
    \/ \E n \in TransformWorkers : TrSend(n)
    \/ \E n \in TransformWorkers : TrDone(n)
    \/ TrConsumerReturn

SpecTransform == InitTransform /\ [][NextTransform]_vars

(* ---------------------------- claims on field keys --------------------------- *)
\* C18: within the run of one source no two producers emit the same field key
\* (emoji, title) (stated here for the goroutines of the issues).
C18_DistinctFieldKeys ==
    \A i, j \in 1..Len(trSent) : FieldKey(trSent[i]) = FieldKey(trSent[j]) => i = j

(* ----------------------- claims on speculative paging ----------------------- *)
\* C19: the worker of a non-empty raw page N has incremented the join barrier and
\* started the worker of page N + 1 before it filters and delivers its page and
\* before it calls Done for itself, so that the barrier counts every worker
\* started and not yet done; page N + 1 is never requested before the response of
\* page N has been received.
C19_SpawnBeforeDeliver ==
    /\ \A k \in 1..(MaxPages - 1) :
          (pc[k] \in {"send", "done", "finished"} /\ Len(requestedIssues[k]) # 0) =>
              pc[k + 1] # "idle"
    /\ wg = Cardinality(Running)
    /\ \A k \in 1..(MaxPages - 1) :
          pc[k + 1] # "idle" => pc[k] \notin {"idle", "request"}
    /\ \A i \in 2..Len(requests) : pc[i - 1] \notin {"idle", "request"}

\* page 2 has been requested and answered while page 1 waits to be delivered
C19_Witness ==
    /\ pc[1] = "send" /\ pc[2] = "decide"
    /\ Len(requests) = 2
    /\ Len(requestedIssues[1]) # 0
    /\ wg = 2

(* -------------- issue path: the request configurations of RequestData -------------- *)
\* most request configurations in requestCfg
MaxConfigs == 2

\* most issue numbers in the map GetGithubIssues returns for a configuration
MaxConfigIssues == 2

\* the maps GetGithubIssues can return for configuration w
ConfigIssues(w) ==
    UNION { [D -> {[Number |-> n, Config |-> w] : n \in D}] : D \in SUBSET (1..MaxConfigIssues) }

InitRequests ==
    /\ rqConfigs \in 1..MaxConfigs
    /\ rqPc = [w \in 1..rqConfigs |-> "idle"]
    /\ rqIssues = [w \in 1..rqConfigs |-> EmptyMap]
    /\ rqLeft = [w \in 1..rqConfigs |-> {}]
    /\ rqKey = [w \in 1..rqConfigs |-> 0]
    /\ rqOverlap = [w \in 1..rqConfigs |-> FALSE]
    /\ allReqGithubIssues = EmptyMap
    /\ internalWg = 0
    /\ rqCoord = "spawn"
    /\ rqNext = 1
    /\ rqCrashed = FALSE
    /\ IdleFirst /\ IdleMeta /\ IdleSig /\ IdleCards /\ IdleTransform

\* RequestData: internalWg.Add(1); go func(cfg GithubIssueRequest) {...}(cfg)
RqSpawn ==
    /\ rqCoord = "spawn" /\ ~rqCrashed
    /\ internalWg' = internalWg + 1
    /\ rqPc' = [rqPc EXCEPT ![rqNext] = "get"]
    /\ rqNext' = rqNext + 1
    /\ rqCoord' = IF rqNext = rqConfigs THEN "wait" ELSE "spawn"
    /\ UNCHANGED <<rqConfigs, rqIssues, rqLeft, rqKey, rqOverlap, allReqGithubIssues, rqCrashed>>
    /\ UNCHANGED notRequestVars

\* the goroutine: githubIssues := GetGithubIssues(cfg)
RqGetIssues(w) ==
    /\ w \in DOMAIN rqPc /\ rqPc[w] = "get" /\ ~rqCrashed
    /\ \E githubIssues \in {m \in ConfigIssues(w) : \A n \in DOMAIN m : m[n].Number = n} :
          /\ rqIssues' = [rqIssues EXCEPT ![w] = githubIssues]
          /\ rqLeft' = [rqLeft EXCEPT ![w] = DOMAIN githubIssues]
    /\ rqPc' = [rqPc EXCEPT ![w] = "range"]
    /\ UNCHANGED <<rqConfigs, rqKey, rqOverlap, allReqGithubIssues, internalWg, rqCoord, rqNext,
                   rqCrashed>>
    /\ UNCHANGED notRequestVars

\* the goroutines that are inside a write of allReqGithubIssues
Writing == {w \in DOMAIN rqPc : rqPc[w] = "write"}

\* the goroutine: allReqGithubIssues[k] = v begins, for the next key of the range
\* loop; nothing orders it with the writes of the other goroutines
RqBeginWrite(w) ==
    /\ w \in DOMAIN rqPc /\ rqPc[w] = "range" /\ ~rqCrashed
    /\ \E k \in rqLeft[w] :
          /\ rqKey' = [rqKey EXCEPT ![w] = k]
          /\ rqLeft' = [rqLeft EXCEPT ![w] = rqLeft[w] \ {k}]
    /\ rqOverlap' = [v \in DOMAIN rqOverlap |->
                        IF v = w THEN Writing # {}
                        ELSE rqOverlap[v] \/ v \in Writing]
    /\ rqPc' = [rqPc EXCEPT ![w] = "write"]
    /\ UNCHANGED <<rqConfigs, rqIssues, allReqGithubIssues, internalWg, rqCoord, rqNext,
                   rqCrashed>>
    /\ UNCHANGED notRequestVars

\* the goroutine: the write ends. A write that no other write overlapped stores the
\* entry; one that was overlapped is a data race on the map: the entry is stored,
\* or it is lost, or the runtime ends the process (concurrent map writes)
RqEndWrite(w) ==
    /\ w \in DOMAIN rqPc /\ rqPc[w] = "write" /\ ~rqCrashed
    /\ \/ /\ allReqGithubIssues' = MapPut(allReqGithubIssues, rqKey[w], rqIssues[w][rqKey[w]])
          /\ UNCHANGED rqCrashed
       \/ /\ rqOverlap[w]
          /\ UNCHANGED <<allReqGithubIssues, rqCrashed>>
       \/ /\ rqOverlap[w]
          /\ rqCrashed' = TRUE
          /\ UNCHANGED allReqGithubIssues
    /\ rqKey' = [rqKey EXCEPT ![w] = 0]
    /\ rqOverlap' = [rqOverlap EXCEPT ![w] = FALSE]
    /\ rqPc' = [rqPc EXCEPT ![w] = "range"]
    /\ UNCHANGED <<rqConfigs, rqIssues, rqLeft, internalWg, rqCoord, rqNext>>
    /\ UNCHANGED notRequestVars

\* the goroutine: the range loop is over; internalWg.Done()
RqDone(w) ==
    /\ w \in DOMAIN rqPc /\ rqPc[w] = "range" /\ rqLeft[w] = {} /\ ~rqCrashed
    /\ internalWg' = internalWg - 1
    /\ rqPc' = [rqPc EXCEPT ![w] = "finished"]
    /\ UNCHANGED <<rqConfigs, rqIssues, rqLeft, rqKey, rqOverlap, allReqGithubIssues, rqCoord,
                   rqNext, rqCrashed>>
    /\ UNCHANGED notRequestVars

\* RequestData: internalWg.Wait() returns and allReqGithubIssues is handed to
\* transformIntoReportData
RqWait ==
    /\ rqCoord = "wait" /\ internalWg = 0 /\ ~rqCrashed
    /\ rqCoord' = "transform"
    /\ UNCHANGED <<rqConfigs, rqPc, rqIssues, rqLeft, rqKey, rqOverlap, allReqGithubIssues,
                   internalWg, rqNext, rqCrashed>>
    /\ UNCHANGED notRequestVars

ConfigWorkers == 1..MaxConfigs

NextRequests ==
    \/ RqSpawn
    \/ \E w \in ConfigWorkers : RqGetIssues(w)
    \/ \E w \in ConfigWorkers : RqBeginWrite(w)
    \/ \E w \in ConfigWorkers : RqEndWrite(w)
    \/ \E w \in ConfigWorkers : RqDone(w)
    \/ RqWait

SpecRequests == InitRequests /\ [][NextRequests]_vars

C21_NoMatchIsDataError ==
    (detailPc = "returned" /\ ~jobData.Status.matched) =>
        /\ details.Severity \notin {LightSeverity, MediumSeverity, HighSeverity}
        /\ details.Highlight = <<>>

(* --------------------------- highlight of a detail record ---------------------- *)
\* the number of runs getDetails works with: the parsed one, 0 without a match
RunsOf(status) == IF status.matched THEN status.runs ELSE 0

\* C22: the highlight of every detail record is one marker repeated exactly severity
\* times, the severity is Light (1), Medium (2) or High (3), so the highlight is never
\* empty; the marker is the new-test marker when runs <= 5, otherwise the failing
\* marker for a Failing job, otherwise the flaky marker.
C22_HighlightIsMarkerTimesSeverity ==
    detailPc = "returned" =>
        LET marker == IF RunsOf(jobData.Status) <= 5 THEN "statusNewTestEmoji"
                      ELSE IF jobData.OverallStatus = "FAILING" THEN "statusFailingEmoji"
                      ELSE "statusFlakyEmoji"
        IN  /\ details.Severity \in {1, 2, 3}
            /\ Len(details.Highlight) = details.Severity
            /\ \A i \in 1..Len(details.Highlight) : details.Highlight[i] = marker

\* a Failing job with 2 of 10 runs passed carries three failing markers, and a Failing
\* job with 3 runs carries one new-test marker
C22_Witness ==
    /\ detailPc = "returned" /\ jobData.OverallStatus = Failing /\ jobData.Status.matched
    /\ \/ /\ jobData.Status.passes = 2 /\ jobData.Status.runs = 10
          /\ details.Highlight = <<statusFailingEmoji, statusFailingEmoji, statusFailingEmoji>>
       \/ /\ jobData.Status.passes = 0 /\ jobData.Status.runs = 3
          /\ details.Highlight = <<statusNewTestEmoji>>

(* ------------------------------ age highlighting ----------------------------- *)
\* every creation timestamp the model can tell apart: the unparsable one and every
\* day from the zero time to ten days after today
CreatedTimestamps == {<<>>} \cup {<<day>> : day \in ZeroTime..(Now + 10)}

\* the creation timestamp of the issue a record was made of
CreatedOf(record) == trIssues[record.ID].CreatedAt

\* C23 as stated: one and the same issue can carry both the stale-old flag (created
\* more than 3 months before now) and the fresh flag (created within the last 5
\* days): every issue that was transformed has a creation timestamp, parsable or
\* not, with which its record carries both.
C23_BothFlagsCombine ==
    \A i \in 1..Len(trSent) :
        \E c \in CreatedTimestamps :
            LET issue == [trIssues[trSent[i].Records[1].ID] EXCEPT !.CreatedAt = c]
            IN  fieldOfIssue(issue).Records[1].Highlight = <<statusOldEmoji, statusNewEmoji>>

\* C23, amended: no issue carries both flags.  The record of an issue carries the
\* stale-old flag exactly when its creation timestamp is unparsable or more than 3
\* months before now, the fresh flag exactly when the timestamp is parsable and not
\* more than 5 days before now, and no creation timestamp gets both.
C23_FlagsExclusive ==
    /\ \A i \in 1..Len(trSent) :
          LET record == trSent[i].Records[1]
              c == CreatedOf(record)
              old == c = <<>> \/ c[1] < Now - 90
              fresh == c # <<>> /\ c[1] >= Now - 5
          IN  /\ ("statusOldEmoji" \in Range(record.Highlight)) <=> old
              /\ ("statusNewEmoji" \in Range(record.Highlight)) <=> fresh
              /\ Len(record.Highlight) <= 1
    /\ trConsumer = "returned" => \A c \in CreatedTimestamps : Len(highlightOf(c)) <= 1

\* an issue with an unparsable creation timestamp was sent with the stale-old flag
\* alone, and an issue created five days ago with the fresh flag alone
C23_Witness ==
    /\ Len(trSent) = 2
    /\ \E i, j \in 1..2 :
          /\ CreatedOf(trSent[i].Records[1]) = <<>>
          /\ trSent[i].Records[1].Highlight = <<statusOldEmoji>>
          /\ CreatedOf(trSent[j].Records[1]) = <<Now - 5>>
          /\ trSent[j].Records[1].Highlight = <<statusNewEmoji>>

(* --------------------------- page parameter of a request ----------------------- *)
\* C24: the request of the k-th page worker carries exactly one page parameter, of
\* value k; no request carries page parameters left over from earlier pages.
C24_OnePageParameter ==
    /\ \A i \in 1..Len(requests) : Len(requests[i]) = 1
    /\ \A k \in Pages : pc[k] \notin {"idle", "request"} => url[k] = <<k>>

(* ------------------------ the join barrier of the caller ----------------------- *)
\* C25: RequestData calls Done on the join barrier of its caller exactly once on
\* every return path, the one on which resolving the Resolved column returns an
\* error included: once it has returned, the barrier the caller raised by one is
\* back at zero and the caller's Wait returns.
C25_DoneOnEveryReturn == rdPc \in {"returned", "error"} => callerWg = 0

(* ---------------------- the result and the order of arrival -------------------- *)
RECURSIVE MergedInPageOrder(_, _)
\* the map the pages k, k + 1, ... give when their results are written in page order
MergedInPageOrder(k, collected) ==
    IF k > CeilPages THEN collected
    ELSE MergedInPageOrder(k + 1, MapMerge(collected, filterGithubIssues(ServerPage(<<k>>))))

\* C26: for fixed upstream page contents the map GetGithubIssues returns is the same
\* under every interleaving of the page workers and the consumer, also when one issue
\* number stands on two pages with different contents.  The pages can arrive in page
\* order, so the map returned is then always the one that order gives.
C26_ResultIndependentOfArrival ==
    consumer = "returned" => collectedIssues = MergedInPageOrder(1, EmptyMap)

\* issue 1 stands on page 1 and, edited, on page 2: a run in which the entry of page
\* 2 is returned; in another run on the same pages the entry of page 1 is
C26_PageOrderResult ==
    /\ consumer = "returned" /\ perPage = 1 /\ Len(upstream) = 2
    /\ upstream[1].Number = 1 /\ upstream[2].Number = 1
    /\ upstream[1].Title = "flaky e2e" /\ upstream[2].Title = "flaky e2e (edited)"
    /\ upstream[1].Labels = upstream[2].Labels /\ PassingOn(1) = {1}
    /\ collectedIssues[1] = upstream[2]

(* ------------------------- termination of the pipelines ------------------------ *)
\* a run of one pipeline in which every request is answered with a document: the
\* column listing holds a column named Resolved, the cards of the column are listed
\* and every label of an issue carries a name
InitAnswered ==
    \/ InitIssues
    \/ InitTestgrid
    \/ (InitBoard /\ findCardsID(columns, "Resolved").kind = "ok")
    \/ (InitCards /\ cdListing.ok)
    \/ InitTransform

IssuesAnswered ==
    \/ CoordStart
    \/ CoordWait
    \/ CoordClose
    \/ \E k \in Pages : DoRequest(k)
    \/ \E k \in Pages : SpawnNext(k)
    \/ \E k \in Pages : SendPage(k)
    \/ \E k \in Pages : WgDone(k)
    \/ ConsumerReturn

TestgridAnswered ==
    \/ TgSpawn
    \/ TgWait
    \/ TgClose
    \/ \E d \in Dashboards : TgFetch(d)
    \/ \E d \in Dashboards : TgSend(d)
    \/ \E d \in Dashboards : TgDone(d)
    \/ TgConsumerReturn

CardsAnswered ==
    \/ CdList
    \/ CdSpawn
    \/ CdWait
    \/ CdClose
    \/ \E k \in CardWorkers : CdNoContent(k)
    \/ \E k \in CardWorkers : (CdDetail(k) /\ ~cdCrashed')
    \/ \E k \in CardWorkers : CdSend(k)
    \/ \E k \in CardWorkers : CdDone(k)
    \/ CdBuild

NextAnswered ==
    \/ (coord # "idle" /\ IssuesAnswered)
    \/ (tgCoord # "idle" /\ TestgridAnswered)
    \/ (rdPc # "idle" /\ NextBoard)
    \/ (cdCoord # "idle" /\ CardsAnswered)
    \/ (trCoord # "idle" /\ NextTransform)

\* the scheduler runs a goroutine that can take a step: a run does not stop while
\* some step is possible
SpecAnswered == InitAnswered /\ [][NextAnswered]_vars /\ WF_vars(NextAnswered)

\* every worker has sent and called Done, the channel is closed and the consumer
\* has left its loop
IssuesTerminated ==
    /\ coord = "done" /\ chClosed /\ consumer = "returned" /\ wg = 0
    /\ \A k \in Pages : pc[k] \in {"idle", "finished"}
    /\ \A k \in 1..(CeilPages + 1) : pc[k] = "finished"

TestgridTerminated ==
    /\ tgCoord = "done" /\ tgClosed /\ tgConsumer = "returned" /\ tgWg = 0
    /\ \A d \in Dashboards : tgPc[d] = "finished"

BoardTerminated ==
    /\ rdPc = "returned" /\ ghCoord = "done" /\ ghClosed /\ ghWg = 0 /\ callerWg = 0
    /\ \A b \in Buckets : bkPc[b] = "finished"

CardsTerminated ==
    /\ cdCoord = "done" /\ cdClosed /\ cdConsumer = "sent" /\ cdWg = 0
    /\ \A k \in DOMAIN cdPc : cdPc[k] = "finished"

TransformTerminated ==
    /\ trCoord = "done" /\ trClosed /\ trConsumer = "returned" /\ trWg = 0
    /\ \A n \in DOMAIN trPc : trPc[n] = "finished"

Terminated ==
    \/ IssuesTerminated
    \/ TestgridTerminated
    \/ BoardTerminated
    \/ CardsTerminated
    \/ TransformTerminated

\* C27: with finitely many non-empty pages, cards and dashboards and every request
\* answered, every pipeline terminates under fair scheduling: every worker completes
\* its send and its Done, the fan-in channel is closed and the consumer loop exits,
\* and the run stays there; no run ends in a state in which a worker waits on a send
\* nobody receives or a Wait never returns.
C27_EveryPipelineTerminates == <>[]Terminated

\* three pages of one issue each and the empty fourth page: the four workers are
\* done, the channel is closed and the three issues are returned
C27_Witness ==
    /\ IssuesTerminated /\ perPage = 1 /\ Len(upstream) = 3
    /\ \A k \in 1..4 : pc[k] = "finished"
    /\ Len(requests) = 4

====
